---- MODULE Spec2Model ----
(***************************************************************************)
(* A model of the personal-finance coaching application: the asset          *)
(* assessment pipeline (asset/views.py: metrics, scoring, the deterministic *)
(* fallback result, the schema repair of the external generator's answer,   *)
(* the assess / assess_mydata / assessment_detail handlers) and the plan    *)
(* allocator (plan/ai_services.py: DynamicPlanGenerator).                   *)
(*                                                                          *)
(* Numbers.  Python floats rounded to 2 decimals and Decimals are kept as   *)
(* integers in fixed point: a metric or a JSON number n stands for n/100,   *)
(* a ratio r for r/10000.  Profile amounts are in units of 10,000 KRW (the  *)
(* unit of the profile's monthly series), plan amounts in units of 100 KRW, *)
(* so that every product stays inside TLC's 32-bit integers.                *)
(*                                                                          *)
(* JSON values.  A value is a record [t, n, s, d]: t its Python type,       *)
(* n its number (hundredths; 0/1 for a bool), s its characters or list      *)
(* items, d its members when it is a dict (a function from the keys that    *)
(* are present).  A string is the sequence of its characters; a word that   *)
(* is never cut is kept as one element.                                     *)
(***************************************************************************)
EXTENDS Integers, Sequences, FiniteSets, TLC

VARIABLES
    profile,        \* the AssetProfile of the requesting user
    llm_json,       \* the external generator's answer handed to the operation
    result,         \* outcome of the last pure call: [st, val]
    assessments,    \* stored Assessment rows (result JSON and grade), oldest first
    display,        \* what assessment_detail last put on the page
    op,             \* name of the last operation
    response,       \* what the last request handler answered
    pred,           \* prediction_result given to the plan generator
    prefs,          \* user_preferences given to the plan generator
    fixed,          \* fixed-expense table (housing, telecom, utilities)
    plan,           \* outcome of the last plan-generator call
    history,        \* monthly incomes handed to predict_income: [unit, incomes]
    client,         \* whether the predictor has an inference client
    calls,          \* external endpoints called by the running predict_income
    pc,             \* where the running predict_income is
    reply,          \* what the last external call gave back: [kind, text]
    prediction,     \* what predict_income returned: [ok, val]
    args,           \* arguments of the plan application's last call or request
    store,          \* the plan application's rows of one user
    snapshots       \* credit snapshots of one user: stored rows, instances in memory, last result

vars == <<profile, llm_json, result, assessments, display, op, response, pred, prefs, fixed, plan,
          history, client, calls, pc, reply, prediction, args, store, snapshots>>
assetVars == <<profile, llm_json, result, assessments, display>>
planVars == <<pred, prefs, fixed, plan>>
predictVars == <<history, client, calls, pc, reply, prediction>>

\* the variables of the plan application's other operations
extVars == <<predictVars, args, store, snapshots>>

\* no prediction is running
PredictIdle ==
    /\ history = [unit |-> 1, incomes |-> <<>>]
    /\ client = FALSE
    /\ calls = <<>>
    /\ pc = "idle"
    /\ reply = [kind |-> "none", text |-> <<>>]
    /\ prediction = [ok |-> FALSE, val |-> <<>>]

\* no row stored
EmptyStore == [predictions |-> <<>>, plans |-> <<>>, next_id |-> 1]

\* no credit snapshot stored or loaded
NoCredit == [rows |-> <<>>, objects |-> <<>>, out |-> <<>>]

ExtIdle == PredictIdle /\ args = <<>> /\ store = EmptyStore /\ snapshots = NoCredit

----------------------------------------------------------------------------
(* Arithmetic helpers *)

Max(a, b) == IF a >= b THEN a ELSE b
Min(a, b) == IF a <= b THEN a ELSE b
Abs(a) == IF a >= 0 THEN a ELSE -a

\* a/b (b > 0) rounded to the nearest integer, ties to even: Python's round()
\* and Decimal.quantize under the default context (ROUND_HALF_EVEN).
RoundHalfEven(a, b) ==
    LET q == a \div b
        r == a % b
    IN  IF 2 * r < b THEN q
        ELSE IF 2 * r > b THEN q + 1
        ELSE IF q % 2 = 0 THEN q ELSE q + 1

\* int(x) for x = a/b (b > 0): truncation toward zero.
TruncDiv(a, b) == IF a >= 0 THEN a \div b ELSE -((-a) \div b)

RECURSIVE SumSeq(_)
SumSeq(s) == IF s = <<>> THEN 0 ELSE Head(s) + SumSeq(Tail(s))

----------------------------------------------------------------------------
(* JSON values as Python sees them *)

NoMembers == [k \in {} |-> 0]
JNull == [t |-> "null", n |-> 0, s |-> <<>>, d |-> NoMembers]
JBool(b) == [t |-> "bool", n |-> IF b THEN 1 ELSE 0, s |-> <<>>, d |-> NoMembers]
JNum(c) == [t |-> "num", n |-> c, s |-> <<>>, d |-> NoMembers]
JInt(i) == JNum(100 * i)
JStr(chars) == [t |-> "str", n |-> 0, s |-> chars, d |-> NoMembers]
JList(items) == [t |-> "list", n |-> 0, s |-> items, d |-> NoMembers]
JDict(members) == [t |-> "dict", n |-> 0, s |-> <<>>, d |-> members]

\* bool(v)
Truthy(v) ==
    CASE v.t = "null" -> FALSE
      [] v.t \in {"bool", "num"} -> v.n # 0
      [] v.t \in {"str", "list"} -> Len(v.s) > 0
      [] OTHER -> DOMAIN v.d # {}

\* dict.get(k) of a dict's members: None when the key is absent
Get(members, k) == IF k \in DOMAIN members THEN members[k] ELSE JNull

\* dict.get(k, default)
GetOr(members, k, default) == IF k \in DOMAIN members THEN members[k] ELSE default

\* x or y
PyOr(x, y) == IF Truthy(x) THEN x ELSE y

\* seq[:k]
Take(seq, k) == SubSeq(seq, 1, Min(k, Len(seq)))

Digits == <<"0", "1", "2", "3", "4", "5", "6", "7", "8", "9">>
IsDigit(c) == \E i \in 1..10 : Digits[i] = c
DigitVal(c) == (CHOOSE i \in 1..10 : Digits[i] = c) - 1

RECURSIVE DecimalValue(_)
DecimalValue(chars) ==
    IF chars = <<>> THEN 0
    ELSE 10 * DecimalValue(SubSeq(chars, 1, Len(chars) - 1)) + DigitVal(chars[Len(chars)])

\* int(v) raises TypeError for None, a list or a dict, ValueError for a string
\* that is not an integer literal.
IntRaises(v) ==
    \/ v.t \in {"null", "list", "dict"}
    \/ v.t = "str" /\ (v.s = <<>> \/ \E i \in 1..Len(v.s) : ~IsDigit(v.s[i]))

\* int(v) where it does not raise, as a whole number
IntOf(v) ==
    CASE v.t = "bool" -> v.n
      [] v.t = "num" -> TruncDiv(v.n, 100)
      [] v.t = "str" -> DecimalValue(v.s)
      [] OTHER -> 0

----------------------------------------------------------------------------
(* asset/views.py: metrics and score of a profile *)

MetricKeys == {"savings_rate_pct", "dti_pct", "debt_to_asset_ratio", "liquidity_ratio", "monthly_surplus"}

compute_metrics_from_profile(p) ==
    LET income_total == p.income_6m
        expense_total == p.expense_6m
        total_assets_liquid == p.savings_balance + p.investment_balance
        total_debts == p.housing_loan_balance + p.auto_loan_balance
    IN  [savings_rate_pct |->
            IF income_total > 0
            THEN RoundHalfEven((income_total - expense_total) * 10000, income_total) ELSE 0,
         dti_pct |->
            IF income_total > 0 THEN RoundHalfEven(expense_total * 10000, income_total) ELSE 0,
         debt_to_asset_ratio |->
            IF total_assets_liquid > 0 THEN RoundHalfEven(total_debts * 100, total_assets_liquid) ELSE 0,
         liquidity_ratio |->
            IF expense_total > 0 THEN RoundHalfEven(p.savings_balance * 100, expense_total) ELSE 0,
         monthly_surplus |->
            IF income_total > 0 THEN 100 * TruncDiv(income_total - expense_total, 6) ELSE 0]

dti_points(dti) ==
    IF dti <= 4000 THEN 25 ELSE IF dti <= 6000 THEN 15 ELSE IF dti <= 7000 THEN 5 ELSE 0

savings_points(savings_rate) ==
    IF savings_rate >= 3000 THEN 20
    ELSE IF savings_rate >= 2000 THEN 15
    ELSE IF savings_rate >= 1000 THEN 7 ELSE 0

\* variant: the 700 threshold read as strictly above
credit_points_strict(credit_score) ==
    IF credit_score >= 900 THEN 20
    ELSE IF credit_score >= 800 THEN 15
    ELSE IF credit_score > 700 THEN 10
    ELSE IF credit_score >= 600 THEN 5 ELSE -10

\* variant: a credit score under 600 costs 40 points
credit_points_harsh(credit_score) ==
    IF credit_score >= 900 THEN 20
    ELSE IF credit_score >= 800 THEN 15
    ELSE IF credit_score >= 700 THEN 10
    ELSE IF credit_score >= 600 THEN 5 ELSE -40

credit_points(credit_score) ==
    IF credit_score >= 900 THEN 20
    ELSE IF credit_score >= 800 THEN 15
    ELSE IF credit_score >= 700 THEN 10
    ELSE IF credit_score >= 600 THEN 5 ELSE -10

health_points(metrics) ==
    (IF metrics.debt_to_asset_ratio < 100 THEN 7
     ELSE IF metrics.debt_to_asset_ratio < 200 THEN 3 ELSE 0)
    + (IF metrics.liquidity_ratio >= 100 THEN 5 ELSE 0)

grade_of(score) ==
    IF score >= 85 THEN "A" ELSE IF score >= 70 THEN "B" ELSE IF score >= 55 THEN "C" ELSE "D"

score_and_grade_from_metrics(metrics, credit_score, delinquency_flag) ==
    LET raw == 50 + dti_points(metrics.dti_pct) + savings_points(metrics.savings_rate_pct)
               + credit_points(credit_score) + health_points(metrics)
               - (IF delinquency_flag THEN 20 ELSE 0)
        score == Max(0, Min(100, raw))
    IN  [score |-> score, grade |-> grade_of(score)]

----------------------------------------------------------------------------
(* asset/views.py: the deterministic base result *)

RECURSIVE SeqMax(_)
SeqMax(s) == IF Len(s) = 1 THEN s[1] ELSE Max(Head(s), SeqMax(Tail(s)))
RECURSIVE SeqMin(_)
SeqMin(s) == IF Len(s) = 1 THEN s[1] ELSE Min(Head(s), SeqMin(Tail(s)))

\* profile.income_monthly or [0]
MonthlyOrZero(series) == IF series = <<>> THEN <<0>> ELSE series

\* The four narrative fields; the numbers formatted into the text are kept as
\* their own words, the wording chosen by the thresholds as a label.
fallback_detailed_analysis(p, metrics) ==
    LET surplus == metrics.monthly_surplus \div 100
        monthly == MonthlyOrZero(p.income_monthly)
    IN  [financial_health |-> JStr(<<"financial_health", ToString(p.income_6m), ToString(p.expense_6m),
                ToString(metrics.savings_rate_pct), ToString(surplus),
                IF surplus > 50 THEN "stable" ELSE IF surplus > 20 THEN "average" ELSE "short">>),
         debt_structure |-> JStr(<<"debt_structure", ToString(p.credit_score),
                IF p.credit_score >= 750 THEN "prime" ELSE IF p.credit_score >= 650 THEN "average" ELSE "watch",
                ToString(metrics.dti_pct),
                IF metrics.dti_pct <= 4000 THEN "safe" ELSE IF metrics.dti_pct <= 6000 THEN "caution" ELSE "danger">>),
         asset_allocation |-> JStr(<<"asset_allocation", ToString(RoundHalfEven(metrics.liquidity_ratio, 10)),
                IF metrics.liquidity_ratio >= 100 THEN "enough" ELSE "short">>),
         trend_analysis |-> JStr(<<"trend_analysis",
                IF Abs(SeqMax(monthly) - SeqMin(monthly)) <= 100 THEN "stable" ELSE "volatile",
                ToString(RoundHalfEven(p.income_6m, 6)), ToString(RoundHalfEven(p.expense_6m, 6))>>)]

fallback_recommendations(p, metrics) ==
    LET surplus == metrics.monthly_surplus \div 100
        high == metrics.dti_pct > 6000
    IN  << IF high
           THEN "high/spending/cut " \o ToString(RoundHalfEven(p.expense_6m, 6)) \o " to "
                \o ToString(RoundHalfEven(p.expense_6m * 9, 60))
           ELSE "normal/saving/raise " \o ToString(surplus) \o " to " \o ToString(surplus + 20),
           "normal/investing/reserve " \o ToString(RoundHalfEven(p.expense_6m * 3, 6))
                \o " then " \o ToString(Min(30, surplus \div 2)) >>

fallback_next_steps(p) ==
    << "budget cap " \o ToString(RoundHalfEven(p.expense_6m, 6)),
       "reserve target " \o ToString(RoundHalfEven(p.expense_6m * 3, 6)),
       "card utilisation under 30%" >>

MetricsJson(metrics) == JDict([k \in MetricKeys |-> JNum(metrics[k])])

fallback_assessment_from_profile(p) ==
    LET metrics == compute_metrics_from_profile(p)
        sg == score_and_grade_from_metrics(metrics, p.credit_score, p.delinquency_last12m # 0)
        status_desc == IF sg.score >= 80 THEN "excellent" ELSE IF sg.score >= 65 THEN "good" ELSE "needs care"
        action_desc == IF sg.score >= 80 THEN "keep and diversify"
                       ELSE IF sg.score >= 65 THEN "improve DTI and reserve" ELSE "manage spending and debt"
    IN  [grade |-> JStr(<<sg.grade>>),
         score_100 |-> JInt(sg.score),
         summary |-> JStr(<<"summary", ToString(p.income_6m), ToString(p.expense_6m),
                           ToString(metrics.savings_rate_pct), ToString(metrics.dti_pct),
                           ToString(p.credit_score), ToString(metrics.monthly_surplus \div 100),
                           sg.grade, status_desc, action_desc>>),
         detailed_analysis |-> JDict(fallback_detailed_analysis(p, metrics)),
         metrics |-> MetricsJson(metrics),
         risk_factors |-> JList(<<"medium/DTI may rise/cash-flow pressure">>),
         alerts |-> JList(<<>>),
         recommendations |-> JList(fallback_recommendations(p, metrics)),
         next_steps |-> JList(fallback_next_steps(p))]

----------------------------------------------------------------------------
(* Text of the external generator and json.loads *)

\* The members a JSON text may hold, each written as one word: "key": value
MemberWords == {"score_100=85", "score_100=0.4", "grade=B", "grade=5", "summary=S"}

\* the members an income prediction answer is written with
PredictionWords ==
    {"monthly=1500000", "monthly=0", "monthly=abc", "yearly=18000000", "yearly=1",
     "confidence=80", "confidence=150", "volatility=500", "trend=sideways"}

MemberKey(w) ==
    CASE w \in {"score_100=85", "score_100=0.4"} -> "score_100"
      [] w \in {"grade=B", "grade=5"} -> "grade"
      [] w \in {"monthly=1500000", "monthly=0", "monthly=abc"} -> "predicted_monthly_income"
      [] w \in {"yearly=18000000", "yearly=1"} -> "predicted_yearly_income"
      [] w \in {"confidence=80", "confidence=150"} -> "confidence"
      [] w = "volatility=500" -> "volatility"
      [] w = "trend=sideways" -> "growth_trend"
      [] OTHER -> "summary"

MemberValue(w) ==
    CASE w = "score_100=85" -> JInt(85)
      [] w = "score_100=0.4" -> JNum(40)
      [] w = "grade=B" -> JStr(<<"B">>)
      [] w = "grade=5" -> JInt(5)
      [] w = "monthly=1500000" -> JInt(1500000)
      [] w = "monthly=0" -> JInt(0)
      [] w = "monthly=abc" -> JStr(<<"abc">>)
      [] w = "yearly=18000000" -> JInt(18000000)
      [] w = "yearly=1" -> JInt(1)
      [] w = "confidence=80" -> JInt(80)
      [] w = "confidence=150" -> JInt(150)
      [] w = "volatility=500" -> JInt(500)
      [] w = "trend=sideways" -> JStr(<<"sideways">>)
      [] OTHER -> JStr(<<"S">>)

\* the members of an object text, a later duplicate key replacing an earlier one
RECURSIVE ObjectMembers(_)
ObjectMembers(words) ==
    IF words = <<>> THEN NoMembers
    ELSE LET before == ObjectMembers(SubSeq(words, 1, Len(words) - 1))
             w == words[Len(words)]
         IN  [k \in DOMAIN before \cup {MemberKey(w)} |->
                 IF k = MemberKey(w) THEN MemberValue(w) ELSE before[k]]

\* json.loads(text): [ok, v]; ok = FALSE stands for JSONDecodeError.  A text is a
\* JSON document when it is one scalar literal, or { members }.
json_loads(text) ==
    IF Len(text) = 1 /\ text[1] = "null" THEN [ok |-> TRUE, v |-> JNull]
    ELSE IF Len(text) = 1 /\ text[1] = "[]" THEN [ok |-> TRUE, v |-> JList(<<>>)]
    ELSE IF Len(text) >= 1 /\ (\A i \in 1..Len(text) : IsDigit(text[i]))
            /\ (Len(text) = 1 \/ text[1] # "0")
        THEN [ok |-> TRUE, v |-> JInt(DecimalValue(text))]
    ELSE IF Len(text) >= 2 /\ text[1] = "{" /\ text[Len(text)] = "}"
            /\ (\A i \in 2..(Len(text) - 1) : text[i] \in MemberWords \cup PredictionWords)
        THEN [ok |-> TRUE, v |-> JDict(ObjectMembers(SubSeq(text, 2, Len(text) - 1)))]
    ELSE [ok |-> FALSE, v |-> JNull]

\* re.search(r"\{.*\}", text, re.DOTALL): greedy, from the first "{" to the last
\* "}" after it; <<>> when there is no match.
brace_match(text) ==
    LET opens == {i \in 1..Len(text) : text[i] = "{"}
        closes == {j \in 1..Len(text) : text[j] = "}"}
    IN  IF opens = {} THEN <<>>
        ELSE LET first == CHOOSE i \in opens : \A k \in opens : i <= k
                 after == {j \in closes : j > first}
             IN  IF after = {} THEN <<>>
                 ELSE SubSeq(text, first, CHOOSE j \in after : \A k \in after : k <= j)

----------------------------------------------------------------------------
(* asset/views.py: _ensure_assessment_schema *)

Raised == [st |-> "raised", val |-> NoMembers]
Returned(members) == [st |-> "ok", val |-> members]

\* the value the overlay reads as `data`
schema_data(llm) ==
    IF llm.t = "dict" THEN llm
    ELSE IF llm.t = "str"
    THEN LET direct == json_loads(llm.s)
             inner == brace_match(llm.s)
         IN  IF direct.ok THEN direct.v
             ELSE IF inner # <<>> /\ json_loads(inner).ok THEN json_loads(inner).v
             ELSE JDict(NoMembers)
    ELSE JDict(NoMembers)

\* `k in m` for the metrics value: a key of a dict, an item of a list, a piece of a string
MetricIn(k, m) ==
    CASE m.t = "dict" -> k \in DOMAIN m.d
      [] m.t \in {"list", "str"} -> \E i \in 1..Len(m.s) : m.s[i] = k
      [] OTHER -> FALSE

\* where the overlay raises: data.get on a non-dict, int() of the score, the slice
\* of the grade, the membership test and the subscript of metrics, .items() of
\* detailed_analysis
schema_raises(data, base) ==
    \/ data.t # "dict"
    \/ IntRaises(GetOr(data.d, "score_100", base.score_100))
    \/ PyOr(Get(data.d, "grade"), base.grade).t \notin {"str", "list"}
    \/ LET m == PyOr(Get(data.d, "metrics"), JDict(NoMembers))
       IN  \/ m.t \in {"num", "bool"}
           \/ m.t \in {"list", "str"} /\ \E k \in MetricKeys : MetricIn(k, m)
    \/ LET da == Get(data.d, "detailed_analysis")
       IN  Truthy(da) /\ da.t # "dict"

\* variant: the grade sliced from its second character
schema_grade_shifted(data, base) ==
    LET g == PyOr(Get(data.d, "grade"), base.grade)
    IN  [g EXCEPT !.s = Tail(Take(g.s, 3))]

schema_grade(data, base) ==
    LET g == PyOr(Get(data.d, "grade"), base.grade)
    IN  [g EXCEPT !.s = Take(g.s, 2)]

\* variant: a metric set to null by the external dict is kept
schema_metrics_keep_null(data, base) ==
    LET m == PyOr(Get(data.d, "metrics"), JDict(NoMembers))
    IN  JDict([k \in MetricKeys |-> IF MetricIn(k, m) THEN m.d[k] ELSE base.metrics.d[k]])

schema_metrics(data, base) ==
    LET m == PyOr(Get(data.d, "metrics"), JDict(NoMembers))
    IN  JDict([k \in MetricKeys |->
            IF MetricIn(k, m) /\ m.d[k].t # "null" THEN m.d[k] ELSE base.metrics.d[k]])

schema_detailed_analysis(data, base) ==
    LET da == Get(data.d, "detailed_analysis")
        kept == IF Truthy(da) THEN {k \in DOMAIN da.d : Truthy(da.d[k])} ELSE {}
    IN  JDict([k \in DOMAIN base.detailed_analysis.d \cup kept |->
            IF k \in kept THEN da.d[k] ELSE base.detailed_analysis.d[k]])

\* variant: the lists of the external dict appended to the base's lists
schema_overlay_merge_lists(data, base) ==
    LET joined(k) == IF Truthy(Get(data.d, k))
                     THEN JList(base[k].s \o Get(data.d, k).s) ELSE base[k]
    IN  [grade |-> schema_grade(data, base),
         score_100 |-> JInt(IntOf(GetOr(data.d, "score_100", base.score_100))),
         summary |-> PyOr(Get(data.d, "summary"), base.summary),
         detailed_analysis |-> schema_detailed_analysis(data, base),
         metrics |-> schema_metrics(data, base),
         risk_factors |-> joined("risk_factors"),
         alerts |-> base.alerts,
         recommendations |-> joined("recommendations"),
         next_steps |-> joined("next_steps")]

\* variant: the alerts of the external dict are taken like the other lists
schema_overlay_with_alerts(data, base) ==
    [grade |-> schema_grade(data, base),
     score_100 |-> JInt(IntOf(GetOr(data.d, "score_100", base.score_100))),
     summary |-> PyOr(Get(data.d, "summary"), base.summary),
     detailed_analysis |-> schema_detailed_analysis(data, base),
     metrics |-> schema_metrics(data, base),
     risk_factors |-> PyOr(Get(data.d, "risk_factors"), base.risk_factors),
     alerts |-> PyOr(Get(data.d, "alerts"), base.alerts),
     recommendations |-> PyOr(Get(data.d, "recommendations"), base.recommendations),
     next_steps |-> PyOr(Get(data.d, "next_steps"), base.next_steps)]

\* variant: a missing score_100 read as 0 instead of the base score
schema_overlay_zero_default(data, base) ==
    [grade |-> schema_grade(data, base),
     score_100 |-> JInt(IntOf(GetOr(data.d, "score_100", JInt(0)))),
     summary |-> PyOr(Get(data.d, "summary"), base.summary),
     detailed_analysis |-> schema_detailed_analysis(data, base),
     metrics |-> schema_metrics(data, base),
     risk_factors |-> PyOr(Get(data.d, "risk_factors"), base.risk_factors),
     alerts |-> base.alerts,
     recommendations |-> PyOr(Get(data.d, "recommendations"), base.recommendations),
     next_steps |-> PyOr(Get(data.d, "next_steps"), base.next_steps)]

schema_overlay(data, base) ==
    [grade |-> schema_grade(data, base),
     score_100 |-> JInt(IntOf(GetOr(data.d, "score_100", base.score_100))),
     summary |-> PyOr(Get(data.d, "summary"), base.summary),
     detailed_analysis |-> schema_detailed_analysis(data, base),
     metrics |-> schema_metrics(data, base),
     risk_factors |-> PyOr(Get(data.d, "risk_factors"), base.risk_factors),
     alerts |-> base.alerts,
     recommendations |-> PyOr(Get(data.d, "recommendations"), base.recommendations),
     next_steps |-> PyOr(Get(data.d, "next_steps"), base.next_steps)]

ensure_assessment_schema(llm, p) ==
    LET base == fallback_assessment_from_profile(p)
        data == schema_data(llm)
    IN  IF schema_raises(data, base) THEN Raised ELSE Returned(schema_overlay(data, base))

----------------------------------------------------------------------------
(* Inputs *)

MaxTextLen == 4

\* the words of the strings handed to the repair
TextWords == {"{", "}", "x", "7", "score_100=85", "grade=5", "summary=S"}

RECURSIVE TextsOfLen(_)
TextsOfLen(k) ==
    IF k = 0 THEN {<<>>}
    ELSE {Append(t, w) : t \in TextsOfLen(k - 1), w \in TextWords}

\* every text of at most n words
TextsUpTo(n) == UNION {TextsOfLen(k) : k \in 0..n}

AssetProfile(income, expense, credit, housing_loan, auto_loan, savings, investment, delinq, monthly) ==
    [income_6m |-> income, expense_6m |-> expense, credit_score |-> credit,
     housing_loan_balance |-> housing_loan, auto_loan_balance |-> auto_loan,
     savings_balance |-> savings, investment_balance |-> investment,
     delinquency_last12m |-> delinq, income_monthly |-> monthly]

\* the demo profile, a profile in the danger band with a delinquency, an empty profile
Profiles ==
    { AssetProfile(3600, 2400, 720, 0, 0, 500, 300, 0, <<550, 600, 580, 620, 600, 650>>),
      AssetProfile(3000, 2900, 550, 20000, 3000, 1000, 0, 2, <<400, 700, 450, 500, 480, 470>>),
      AssetProfile(0, 0, 0, 0, 0, 0, 0, 0, <<>>) }

Absent == [t |-> "absent", n |-> 0, s |-> <<>>, d |-> NoMembers]

TopKeys == {"grade", "score_100", "summary", "detailed_analysis", "metrics",
            "risk_factors", "alerts", "recommendations", "next_steps"}

\* a dict from a choice of value per key, the keys chosen Absent left out
MakeDict(choice) ==
    JDict([k \in {x \in DOMAIN choice : choice[x] # Absent} |-> choice[k]])

ScoreOpts == {Absent, JNull, JNum(40), JInt(85), JInt(150), JStr(<<"8", "5">>), JStr(<<"x">>)}
GradeOpts == {Absent, JNull, JStr(<<"B">>), JStr(<<"A", "B", "C">>), JStr(<<"Z">>), JInt(5)}
SummaryOpts == {Absent, JStr(<<"S">>)}
MetricsOpts ==
    {Absent,
     JDict([dti_pct |-> JNum(1234), monthly_surplus |-> JInt(7)]),
     JDict([dti_pct |-> JNull, liquidity_ratio |-> JNum(250), extra |-> JInt(1)]),
     JStr(<<"dti_pct">>),
     JInt(5)}
AnalysisOpts ==
    {Absent,
     JDict([financial_health |-> JStr(<<"F">>), debt_structure |-> JStr(<<>>),
            trend_analysis |-> JNull, note |-> JStr(<<"N">>)]),
     JStr(<<"text">>)}
ListOpts ==
    {[risk_factors |-> Absent, alerts |-> Absent, recommendations |-> Absent, next_steps |-> Absent],
     [risk_factors |-> JList(<<>>), alerts |-> JList(<<>>), recommendations |-> JNull, next_steps |-> JList(<<>>)],
     [risk_factors |-> JList(<<"r1">>), alerts |-> JList(<<"a1">>), recommendations |-> JList(<<"c1", "c2", "c3">>),
      next_steps |-> JList(<<"n1">>)]}

Dicts ==
    { MakeDict([grade |-> g, score_100 |-> sc, summary |-> su, detailed_analysis |-> da, metrics |-> m,
                risk_factors |-> l.risk_factors, alerts |-> l.alerts,
                recommendations |-> l.recommendations, next_steps |-> l.next_steps]) :
        g \in GradeOpts, sc \in ScoreOpts, su \in SummaryOpts, da \in AnalysisOpts,
        m \in MetricsOpts, l \in ListOpts }

\* what a caller may hand to _ensure_assessment_schema: None, a string, a dict
RepairInputs(n) == {JNull} \cup {JStr(t) : t \in TextsUpTo(n)} \cup Dicts

NoResult == [st |-> "none", val |-> NoMembers]

----------------------------------------------------------------------------
(* Calls of _ensure_assessment_schema on one profile and one input *)

InitRepair ==
    /\ profile \in Profiles
    /\ llm_json \in RepairInputs(MaxTextLen)
    /\ result = NoResult
    /\ assessments = <<>>
    /\ display = NoResult
    /\ op = "init"
    /\ response = "none"
    /\ pred = <<>> /\ prefs = <<>> /\ fixed = <<>> /\ plan = <<>>
    /\ ExtIdle

CallRepair ==
    /\ op = "init"
    /\ result' = ensure_assessment_schema(llm_json, profile)
    /\ op' = "repair"
    /\ UNCHANGED <<profile, llm_json, assessments, display, response, planVars, extVars>>

NextRepair == CallRepair

SpecRepair == InitRepair /\ [][NextRepair]_vars

----------------------------------------------------------------------------
(* asset/ai_client.py: hf_chat_json *)

StartsWith(t, m) == Len(t) >= Len(m) /\ SubSeq(t, 1, Len(m)) = m
EndsWith(t, m) == Len(t) >= Len(m) /\ SubSeq(t, Len(t) - Len(m) + 1, Len(t)) = m

\* one round of the code-fence loop: cut the marker from the start, then from the end
strip_marker(t, m) ==
    LET a == IF StartsWith(t, m) THEN SubSeq(t, Len(m) + 1, Len(t)) ELSE t
    IN  IF EndsWith(a, m) THEN SubSeq(a, 1, Len(a) - Len(m)) ELSE a

\* the markers in the order the loop tries them: ```json, ```, json ("~~~" is the fence)
extract_json_from_text(text) ==
    LET t == strip_marker(strip_marker(strip_marker(text, <<"~~~", "json">>), <<"~~~">>), <<"json">>)
        block == brace_match(t)
    IN  json_loads(IF block # <<>> THEN block ELSE t)

\* ext: what the provider did, [fail, text].  The outcome is the parsed value, or
\* raised (RuntimeError of hf_chat, ValueError of the parse).
hf_chat_json(ext) ==
    IF ext.fail THEN [st |-> "raised", v |-> JNull]
    ELSE IF json_loads(ext.text).ok THEN [st |-> "ok", v |-> json_loads(ext.text).v]
    ELSE IF extract_json_from_text(ext.text).ok
         THEN [st |-> "ok", v |-> extract_json_from_text(ext.text).v]
    ELSE [st |-> "raised", v |-> JNull]

MaxMembers == 2

RECURSIVE MemberSeqs(_)
MemberSeqs(k) ==
    IF k = 0 THEN {<<>>}
    ELSE {Append(t, w) : t \in MemberSeqs(k - 1), w \in MemberWords}

\* what the provider may write: an object of up to MaxMembers members, a bare
\* number, prose, an object that is not JSON, nothing
AnswerDocs ==
    {<<"{">> \o ms \o <<"}">> : ms \in UNION {MemberSeqs(k) : k \in 0..MaxMembers}}
    \cup {<<"7">>, <<"x">>, <<"{", "x", "}">>, <<>>}

\* the document bare, inside prose, or inside a code fence
AnswerTexts ==
    {pre \o doc \o post :
        pre \in {<<>>, <<"x">>, <<"~~~">>, <<"~~~", "json">>},
        doc \in AnswerDocs,
        post \in {<<>>, <<"x">>, <<"~~~">>}}

ExternalAnswers ==
    {[fail |-> TRUE, text |-> <<>>]} \cup {[fail |-> FALSE, text |-> t] : t \in AnswerTexts}

\* what hf_chat_json hands to the handler over all these answers
ParsedAnswers == {hf_chat_json(ext) : ext \in ExternalAnswers}

----------------------------------------------------------------------------
(* asset/views.py: assess, assess_mydata, assessment_detail *)

MaxAssessments == 1

NoProfile == AssetProfile(-1, -1, -1, -1, -1, -1, -1, -1, <<>>)

\* lines 602-615 / 676-689: the answer kept only when it is a dict with a truthy score_100
validated_answer(answer) ==
    IF answer.st = "ok" /\ answer.v.t = "dict" /\ Truthy(Get(answer.v.d, "score_100"))
    THEN answer.v ELSE JNull

\* variant: the repaired result stored whatever its score
assessed_result_no_zero_check(answer, p) ==
    LET repaired == ensure_assessment_schema(validated_answer(answer), p)
    IN  IF repaired.st = "raised" THEN [st |-> "raised", val |-> NoMembers, grade |-> <<>>]
        ELSE [st |-> "ok", val |-> repaired.val,
              grade |-> Take(PyOr(Get(repaired.val, "grade"), JStr(<<>>)).s, 2)]

\* variant: a failure of the external call is not caught by the handler
assessed_result_uncaught(answer, p) ==
    IF answer.st = "raised" THEN [st |-> "raised", val |-> NoMembers, grade |-> <<>>]
    ELSE LET repaired == ensure_assessment_schema(validated_answer(answer), p)
         IN  IF repaired.st = "raised" THEN [st |-> "raised", val |-> NoMembers, grade |-> <<>>]
             ELSE LET final == IF GetOr(repaired.val, "score_100", JInt(0)).n = 0
                               THEN fallback_assessment_from_profile(p) ELSE repaired.val
                  IN  [st |-> "ok", val |-> final,
                       grade |-> Take(PyOr(Get(final, "grade"), JStr(<<>>)).s, 2)]

\* lines 619-626 / 693-700: repair, the forced fallback on a zero score, the grade column.
\* [st, val, grade]; st = "raised" when the repair raises (nothing is stored).
assessed_result(answer, p) ==
    LET repaired == ensure_assessment_schema(validated_answer(answer), p)
    IN  IF repaired.st = "raised" THEN [st |-> "raised", val |-> NoMembers, grade |-> <<>>]
        ELSE LET final == IF GetOr(repaired.val, "score_100", JInt(0)).n = 0
                          THEN fallback_assessment_from_profile(p) ELSE repaired.val
             IN  [st |-> "ok", val |-> final,
                  grade |-> Take(PyOr(Get(final, "grade"), JStr(<<>>)).s, 2)]

\* the body shared by assess (after its form check) and assess_mydata
AssessBody(name, authenticated, answer) ==
    IF ~authenticated \/ profile = NoProfile
    THEN /\ response' = "error_message"
         /\ op' = name
         /\ UNCHANGED <<profile, llm_json, result, assessments, display, planVars, extVars>>
    ELSE LET out == assessed_result(answer, profile)
         IN  /\ llm_json' = answer
             /\ op' = name
             /\ IF out.st = "ok"
                THEN /\ assessments' = Append(assessments, [result |-> out.val, grade |-> out.grade])
                     /\ response' = "redirect_detail"
                ELSE /\ assessments' = assessments
                     /\ response' = "server_error"
             /\ UNCHANGED <<profile, result, display, planVars, extVars>>

Assess ==
    /\ Len(assessments) < MaxAssessments
    /\ \E form_valid \in BOOLEAN, authenticated \in BOOLEAN, answer \in ParsedAnswers :
          IF ~form_valid
          THEN /\ response' = "error_message"
               /\ op' = "assess"
               /\ UNCHANGED <<profile, llm_json, result, assessments, display, planVars, extVars>>
          ELSE AssessBody("assess", authenticated, answer)

AssessMydata ==
    /\ Len(assessments) < MaxAssessments
    /\ \E authenticated \in BOOLEAN, answer \in ParsedAnswers :
          AssessBody("assess_mydata", authenticated, answer)

\* assessment_detail: the page shows the stored result repaired again in memory;
\* a raise of the repair is swallowed and the stored result shown as it is.
AssessmentDetail ==
    \E pk \in 1..Len(assessments) :
        LET obj == assessments[pk]
            shown == IF profile = NoProfile THEN Raised
                     ELSE ensure_assessment_schema(JDict(obj.result), profile)
        IN  /\ display' = IF shown.st = "ok" THEN shown ELSE Returned(obj.result)
            /\ op' = "assessment_detail"
            /\ response' = "page"
            /\ UNCHANGED <<profile, llm_json, result, assessments, planVars, extVars>>

InitAssess ==
    /\ profile \in Profiles \cup {NoProfile}
    /\ llm_json = [st |-> "none", v |-> JNull]
    /\ result = NoResult
    /\ assessments = <<>>
    /\ display = NoResult
    /\ op = "init"
    /\ response = "none"
    /\ pred = <<>> /\ prefs = <<>> /\ fixed = <<>> /\ plan = <<>>
    /\ ExtIdle

NextAssess == Assess \/ AssessMydata \/ AssessmentDetail

SpecAssess == InitAssess /\ [][NextAssess]_vars


----------------------------------------------------------------------------
(* Claims about _ensure_assessment_schema, under SpecRepair *)

AnalysisKeys == {"financial_health", "debt_structure", "asset_allocation", "trend_analysis"}

\* C1: repair is total: for None, any string (also one that parses as JSON but not
\* as an object) and any dict, with any profile, it returns a result and never raises.
C1_RepairNeverRaises == op = "repair" => result.st = "ok"

\* a string with no JSON in it: json.loads rejects it, and the span from its first
\* "{" to its last "}" (if any) is rejected too
MalformedText(v) ==
    /\ v.t = "str"
    /\ ~json_loads(v.s).ok
    /\ (brace_match(v.s) = <<>> \/ ~json_loads(brace_match(v.s)).ok)

C3_ScoreAndGradeInRange ==
    (op = "repair" /\ result.st = "ok") =>
        /\ result.val.score_100.t = "num"
        /\ result.val.score_100.n % 100 = 0
        /\ result.val.score_100.n \in 0..10000
        /\ result.val.grade \in {JStr(<<"A">>), JStr(<<"B">>), JStr(<<"C">>), JStr(<<"D">>)}

\* C4: whenever repair returns, every schema field (the nine top-level fields, the
\* five metrics, the four detailed_analysis fields) is present and non-null.
C4_SchemaComplete ==
    (op = "repair" /\ result.st = "ok") =>
        /\ \A k \in TopKeys : k \in DOMAIN result.val /\ result.val[k].t # "null"
        /\ result.val.metrics.t = "dict"
        /\ \A k \in MetricKeys :
              k \in DOMAIN result.val.metrics.d /\ result.val.metrics.d[k].t # "null"
        /\ result.val.detailed_analysis.t = "dict"
        /\ \A k \in AnalysisKeys :
              k \in DOMAIN result.val.detailed_analysis.d
              /\ result.val.detailed_analysis.d[k].t # "null"

\* C4 witness: repair returned for a dict that sets schema fields to null
C4_Witness ==
    /\ op = "repair" /\ result.st = "ok" /\ llm_json.t = "dict"
    /\ "grade" \in DOMAIN llm_json.d /\ llm_json.d.grade = JNull
    /\ "recommendations" \in DOMAIN llm_json.d /\ llm_json.d.recommendations = JNull
    /\ "metrics" \in DOMAIN llm_json.d /\ llm_json.d.metrics.t = "dict"
    /\ "dti_pct" \in DOMAIN llm_json.d.metrics.d /\ llm_json.d.metrics.d.dti_pct = JNull
    /\ "detailed_analysis" \in DOMAIN llm_json.d /\ llm_json.d.detailed_analysis.t = "dict"
    /\ llm_json.d.detailed_analysis.d.trend_analysis = JNull

\* C6: repairing a repaired result with the same profile (what assessment_detail
\* does with a stored result) returns it unchanged.
C6_RepairIdempotent ==
    (op = "repair" /\ llm_json.t = "dict" /\ result.st = "ok") =>
        ensure_assessment_schema(JDict(result.val), profile) = result

\* C6 witness: a dict that overlays every kind of field was repaired
C6_Witness ==
    /\ op = "repair" /\ llm_json.t = "dict" /\ result.st = "ok"
    /\ result.val.score_100 = JInt(85)
    /\ result.val.grade = JStr(<<"A", "B">>)
    /\ result.val.metrics.d.dti_pct = JNum(1234)
    /\ "note" \in DOMAIN result.val.detailed_analysis.d
    /\ result.val.risk_factors = JList(<<"r1">>)

----------------------------------------------------------------------------
(* Claims about assess and assess_mydata, under SpecAssess *)

LastStored == assessments[Len(assessments)]

\* the repair of the answer the handler kept, before the zero-score check
RepairedAnswer == ensure_assessment_schema(validated_answer(llm_json), profile)

HandlerStored == op \in {"assess", "assess_mydata"} /\ response = "redirect_detail"

\* C5: in assess and assess_mydata, when the repaired result has score_100 = 0 the
\* stored result is exactly the deterministic re-derivation from the profile; no
\* field of the external dict's overlay is retained.
C5_ZeroScoreForcesFallback ==
    (HandlerStored /\ RepairedAnswer.st = "ok" /\ RepairedAnswer.val.score_100.n = 0) =>
        /\ LastStored.result = fallback_assessment_from_profile(profile)
        /\ LastStored.grade = fallback_assessment_from_profile(profile).grade.s

\* C5 witness: an answer with a truthy score that truncates to 0 and a summary of
\* its own was stored by a handler
C5_Witness ==
    /\ HandlerStored
    /\ RepairedAnswer.st = "ok" /\ RepairedAnswer.val.score_100.n = 0
    /\ RepairedAnswer.val.summary = JStr(<<"S">>)
    /\ LastStored.result.summary # JStr(<<"S">>)

----------------------------------------------------------------------------
(* The ScoringEngine on a profile *)

ScoreProfiles ==
    { AssetProfile(income, expense, credit, housing_loan, 0, savings, 0, delinq, <<>>) :
        income \in {0, 1000, 3600},
        expense \in {0, 400, 401, 600, 601, 700, 701, 800, 801, 900, 901, 1200, 2400},
        credit \in {0, 599, 600, 699, 700, 720, 799, 800, 899, 900, 1000},
        housing_loan \in {0, 999, 1000, 1999, 2000, 20000},
        savings \in {0, 1000, 2400},
        delinq \in {0, 1} }

InitScore ==
    /\ profile \in ScoreProfiles
    /\ llm_json = JNull
    /\ result = NoResult
    /\ assessments = <<>>
    /\ display = NoResult
    /\ op = "init"
    /\ response = "none"
    /\ pred = <<>> /\ prefs = <<>> /\ fixed = <<>> /\ plan = <<>>
    /\ ExtIdle

\* the first two lines of _fallback_assessment_from_profile
CallScore ==
    /\ op = "init"
    /\ LET metrics == compute_metrics_from_profile(profile)
           sg == score_and_grade_from_metrics(metrics, profile.credit_score,
                                              profile.delinquency_last12m # 0)
       IN  result' = [st |-> "ok", val |-> [metrics |-> metrics, score |-> sg.score, grade |-> sg.grade]]
    /\ op' = "score"
    /\ UNCHANGED <<profile, llm_json, assessments, display, response, planVars, extVars>>

NextScore == CallScore

SpecScore == InitScore /\ [][NextScore]_vars

\* the score the scoring rules give to metrics m (hundredths), credit score c and
\* delinquency flag f
C7_RuleScore(m, c, f) ==
    LET dti == CASE m.dti_pct <= 4000 -> 25 [] m.dti_pct \in 4001..6000 -> 15
                 [] m.dti_pct \in 6001..7000 -> 5 [] OTHER -> 0
        sav == CASE m.savings_rate_pct >= 3000 -> 20 [] m.savings_rate_pct \in 2000..2999 -> 15
                 [] m.savings_rate_pct \in 1000..1999 -> 7 [] OTHER -> 0
        cre == CASE c >= 900 -> 20 [] c \in 800..899 -> 15 [] c \in 700..799 -> 10
                 [] c \in 600..699 -> 5 [] OTHER -> -10
        dta == CASE m.debt_to_asset_ratio < 100 -> 7 [] m.debt_to_asset_ratio \in 100..199 -> 3
                 [] OTHER -> 0
        liq == IF m.liquidity_ratio >= 100 THEN 5 ELSE 0
        total == 50 + dti + sav + cre + dta + liq - (IF f THEN 20 ELSE 0)
    IN  IF total < 0 THEN 0 ELSE IF total > 100 THEN 100 ELSE total

\* C7: the score is clamp(50 + DTI + savings-rate + credit + debt-to-asset +
\* liquidity points - 20 if delinquent, 0, 100) with the stated thresholds, the
\* grade A/B/C/D by 85/70/55, and income 36,000,000 / expense 24,000,000 / credit
\* 720 / no delinquency is grade A whatever the loan and asset balances.
C7_ScoreFormula ==
    op = "score" =>
        /\ result.val.score =
             C7_RuleScore(result.val.metrics, profile.credit_score, profile.delinquency_last12m # 0)
        /\ result.val.grade = (CASE result.val.score >= 85 -> "A" [] result.val.score \in 70..84 -> "B"
                                 [] result.val.score \in 55..69 -> "C" [] OTHER -> "D")
        /\ (profile.income_6m = 3600 /\ profile.expense_6m = 2400 /\ profile.credit_score = 720
            /\ profile.delinquency_last12m = 0)
           => (result.val.grade = "A" /\ result.val.metrics.dti_pct = 6667
               /\ result.val.metrics.savings_rate_pct = 3333)

\* C7 witness: the scenario profile with debts twice its assets and a thin reserve
\* scored exactly 85
C7_Witness ==
    /\ op = "score"
    /\ profile.income_6m = 3600 /\ profile.expense_6m = 2400 /\ profile.credit_score = 720
    /\ profile.delinquency_last12m = 0
    /\ result.val.metrics.debt_to_asset_ratio >= 200
    /\ result.val.score = 85 /\ result.val.grade = "A"

----------------------------------------------------------------------------
(* plan/ai_services.py: DynamicPlanGenerator.  Volatility is in hundredths  *)
(* of a percent point, a ratio before renormalisation in hundredths, after  *)
(* it in ten-thousandths, an amount in units of 100 KRW.  The code keeps    *)
(* amounts as exact Decimals; here each amount is rounded to its unit.      *)

RatioKeys == {"savings", "investment", "housing", "food", "transport", "healthcare", "entertainment", "other"}

PlanTypes == {"conservative", "moderate", "aggressive"}

RECURSIVE SumValues(_)
SumValues(f) ==
    IF DOMAIN f = {} THEN 0
    ELSE LET k == CHOOSE x \in DOMAIN f : TRUE
         IN  f[k] + SumValues([j \in DOMAIN f \ {k} |-> f[j]])

RatioSum(r) ==
    r.savings + r.investment + r.housing + r.food + r.transport + r.healthcare
    + r.entertainment + r.other

\* variant: the tier the user chose is the tier of the plan
determine_plan_type_preferred(volatility, risk_factors, user_preferences) ==
    user_preferences.plan_type

determine_plan_type(volatility, risk_factors, user_preferences) ==
    LET risk_score == Len(risk_factors)
    IN  IF volatility > 3000 \/ risk_score >= 3 THEN "conservative"
        ELSE IF volatility > 1500 \/ risk_score >= 2 THEN "moderate"
        ELSE "aggressive"

base_ratios(plan_type) ==
    CASE plan_type = "conservative" ->
            [savings |-> 25, investment |-> 15, housing |-> 25, food |-> 15,
             transport |-> 8, healthcare |-> 5, entertainment |-> 5, other |-> 2]
      [] plan_type = "moderate" ->
            [savings |-> 20, investment |-> 20, housing |-> 30, food |-> 15,
             transport |-> 10, healthcare |-> 5, entertainment |-> 10, other |-> 5]
      [] plan_type = "aggressive" ->
            [savings |-> 15, investment |-> 25, housing |-> 30, food |-> 15,
             transport |-> 10, healthcare |-> 5, entertainment |-> 10, other |-> 5]

\* lines 666-698: the adjustments made before the renormalisation
adjusted_ratios(volatility, growth_trend, plan_type) ==
    LET base == base_ratios(plan_type)
        savings1 == IF volatility > 3000 THEN base.savings + 5 ELSE base.savings
        invest1 == IF volatility > 3000 THEN base.investment - 5 ELSE base.investment
        invest2 == IF growth_trend = "positive" THEN invest1 + 5 ELSE invest1
        savings2 == IF growth_trend = "negative" THEN savings1 + 5 ELSE savings1
    IN  [base EXCEPT !.housing = Max(20, base.housing - 5),
                     !.savings = savings2 + 2,
                     !.investment = IF volatility > 2500 THEN Max(10, invest2 - 3)
                                    ELSE invest2 + 2]

\* variant: the adjusted ratios returned without the renormalisation
calculate_dynamic_ratios_raw(volatility, growth_trend, plan_type) ==
    LET ratios == adjusted_ratios(volatility, growth_trend, plan_type)
    IN  [k \in RatioKeys |-> ratios[k] * 100]

\* variant: the renormalised ratios cut to 4 decimals instead of rounded
calculate_dynamic_ratios_floor(volatility, growth_trend, plan_type) ==
    LET ratios == adjusted_ratios(volatility, growth_trend, plan_type)
        total == RatioSum(ratios)
    IN  [k \in RatioKeys |-> (ratios[k] * 10000) \div total]

calculate_dynamic_ratios(volatility, growth_trend, plan_type) ==
    LET ratios == adjusted_ratios(volatility, growth_trend, plan_type)
        total == RatioSum(ratios)
    IN  IF total # 0
        THEN [k \in RatioKeys |-> RoundHalfEven(ratios[k] * 10000, total)]
        ELSE [k \in RatioKeys |-> ratios[k] * 100]

\* seasonal multiplier of a month, in hundredths
get_seasonal_factor(month) ==
    IF month \in 1..12
    THEN <<110, 90, 100, 100, 100, 95, 100, 90, 105, 110, 110, 120>>[month]
    ELSE 100

\* (pct/100) ** month in millionths: Decimal("1.01") ** month, Decimal("0.99") ** month
RECURSIVE growth_power(_, _)
growth_power(pct, month) ==
    IF month = 0 THEN 1000000 ELSE RoundHalfEven(growth_power(pct, month - 1) * pct, 100)

\* amount * factor for a factor in millionths, rounded to the amount's unit; the
\* product is taken in two parts to stay inside 32 bits
TimesMillionths(amount, factor) ==
    LET high == amount * (factor \div 1000)
        rest == (high % 1000) * 1000 + amount * (factor % 1000)
        q == high \div 1000 + rest \div 1000000
        r == rest % 1000000
    IN  IF 2 * r < 1000000 THEN q
        ELSE IF 2 * r > 1000000 THEN q + 1
        ELSE IF q % 2 = 0 THEN q ELSE q + 1

\* fixed_expenses.get(k, 0)
FixedGet(fixed_expenses, k) == IF k \in DOMAIN fixed_expenses THEN fixed_expenses[k] ELSE 0

\* lines 730-737: the month's income after the seasonal factor and the trend
monthly_income_of(month, predicted_income, growth_trend) ==
    LET seasonal == RoundHalfEven(predicted_income * get_seasonal_factor(month), 100)
    IN  IF growth_trend = "positive" THEN TimesMillionths(seasonal, growth_power(101, month))
        ELSE IF growth_trend = "negative" THEN TimesMillionths(seasonal, growth_power(99, month))
        ELSE seasonal

\* variant: what is left after savings, investment and fixed expenses, not floored at 0
remaining_budget_unclamped(monthly_income, savings_amt, invest_amt, fixed_expenses) ==
    monthly_income - savings_amt - invest_amt - FixedGet(fixed_expenses, "housing")
    - FixedGet(fixed_expenses, "telecom") - FixedGet(fixed_expenses, "utilities")

\* lines 747-759
remaining_budget(monthly_income, savings_amt, invest_amt, fixed_expenses) ==
    LET remaining == monthly_income - savings_amt - invest_amt
                     - FixedGet(fixed_expenses, "housing")
                     - FixedGet(fixed_expenses, "telecom")
                     - FixedGet(fixed_expenses, "utilities")
    IN  IF remaining < 0 THEN 0 ELSE remaining

\* one iteration of the loop of _generate_monthly_plans
monthly_plan(month, predicted_income, ratios, growth_trend, fixed_expenses) ==
    LET monthly_income == monthly_income_of(month, predicted_income, growth_trend)
        fixed_total == SumValues(fixed_expenses)
        savings_amt == RoundHalfEven(monthly_income * ratios.savings, 10000)
        invest_amt == RoundHalfEven(monthly_income * ratios.investment, 10000)
        housing_fixed == FixedGet(fixed_expenses, "housing")
        remaining == remaining_budget(monthly_income, savings_amt, invest_amt, fixed_expenses)
        weight_sum == ratios.food + ratios.transport + ratios.healthcare
                      + ratios.entertainment + ratios.other
        share(k) == IF weight_sum > 0 THEN RoundHalfEven(remaining * ratios[k], weight_sum) ELSE 0
    IN  [month |-> month,
         expected_income |-> monthly_income,
         savings |-> savings_amt,
         investment |-> invest_amt,
         housing |-> IF housing_fixed # 0 THEN housing_fixed
                     ELSE RoundHalfEven(monthly_income * ratios.housing, 10000),
         food |-> share("food"),
         transport |-> share("transport"),
         healthcare |-> share("healthcare"),
         entertainment |-> share("entertainment"),
         other |-> share("other"),
         fixed_expenses_total |-> fixed_total,
         telecom |-> FixedGet(fixed_expenses, "telecom"),
         utilities |-> FixedGet(fixed_expenses, "utilities")]

generate_monthly_plans(predicted_income, ratios, growth_trend, fixed_expenses) ==
    [month \in 1..12 |-> monthly_plan(month, predicted_income, ratios, growth_trend, fixed_expenses)]

\* the default table of the generator
fetch_fixed_expenses == [housing |-> 8000, telecom |-> 700, utilities |-> 1200]

\* plan/mydata.py: the table of the MyData client, the same for every user
get_fixed_expenses(user) == [housing |-> 4000, telecom |-> 700, utilities |-> 1200]

\* the labels a prediction carries: the four of the statistical predictor, then
\* the two of its parse-limited and no-data results
RiskLabels == <<"high_volatility", "short_history", "low_income", "recent_decline",
                "parse_limited", "no_data">>

\* the first substring test of the loop that the label passes
get_mitigation_strategies(risk_factors) ==
    LET strategy(f) == CASE f = "high_volatility" -> <<"diversify_income">>
                         [] f = "short_history" -> <<"keep_records">>
                         [] f \in {"low_income", "recent_decline", "no_data"} -> <<"upgrade_skills">>
                         [] OTHER -> <<>>
        RECURSIVE collect(_)
        collect(fs) == IF fs = <<>> THEN <<>> ELSE strategy(Head(fs)) \o collect(Tail(fs))
    IN  collect(risk_factors)

assess_plan_risk(volatility, risk_factors) ==
    LET risk_score == Len(risk_factors)
    IN  [level |-> IF volatility > 3000 \/ risk_score >= 3 THEN "high"
                   ELSE IF volatility > 1500 \/ risk_score >= 2 THEN "medium" ELSE "low",
         factors |-> risk_factors,
         mitigation_strategies |-> get_mitigation_strategies(risk_factors)]

create_adaptation_strategy(growth_trend, risk_factors) ==
    LET by_trend == IF growth_trend = "positive" THEN <<"raise_investment_on_growth">>
                    ELSE IF growth_trend = "negative" THEN <<"cut_spending_on_decline">>
                    ELSE <<>>
        actions == IF growth_trend = "positive" THEN <<"review_added_investment">>
                   ELSE IF growth_trend = "negative" THEN <<"secure_emergency_fund">>
                   ELSE <<>>
    IN  [review_frequency |-> IF Len(risk_factors) > 2 THEN "weekly" ELSE "monthly",
         adjustment_triggers |->
             IF Len(risk_factors) > 2 THEN Append(by_trend, "replan_on_high_volatility")
             ELSE by_trend,
         action_plans |-> actions]

\* the table generate_adaptive_plan uses: the MyData client's when a user is given
fixed_expenses_for(user) ==
    IF user # "none" THEN get_fixed_expenses(user) ELSE fetch_fixed_expenses

generate_adaptive_plan(prediction_result, user_preferences, user) ==
    LET predicted_income == prediction_result.predicted_monthly_income
        volatility == prediction_result.income_volatility
        risk_factors == prediction_result.risk_factors
        growth_trend == prediction_result.growth_trend
        plan_type == determine_plan_type(volatility, risk_factors, user_preferences)
        ratios == calculate_dynamic_ratios(volatility, growth_trend, plan_type)
    IN  [plan_type |-> plan_type,
         ratios |-> ratios,
         monthly_plans |-> generate_monthly_plans(predicted_income, ratios, growth_trend,
                                                  fixed_expenses_for(user)),
         risk_assessment |-> assess_plan_risk(volatility, risk_factors),
         adaptation_strategy |-> create_adaptation_strategy(growth_trend, risk_factors)]

----------------------------------------------------------------------------
(* The plan generator on a prediction *)

MaxRiskFactors == 4

Predictions ==
    { [predicted_monthly_income |-> income, income_volatility |-> volatility,
       risk_factors |-> SubSeq(RiskLabels, 1, n), growth_trend |-> trend] :
        income \in {0, 10000, 30000, 60000},
        volatility \in {1000, 1500, 1501, 2500, 2501, 3000, 3001},
        n \in 0..MaxRiskFactors,
        trend \in {"positive", "stable", "negative", "unknown"} }

Preferences ==
    { [plan_type |-> "aggressive", target_savings_rate |-> 10],
      [plan_type |-> "conservative", target_savings_rate |-> 40] }

\* tables handed to _generate_monthly_plans: the two of the code, an empty one, and
\* one with no housing cost and a further entry
FixedTables ==
    { fetch_fixed_expenses, get_fixed_expenses("user"), NoMembers,
      [housing |-> 0, telecom |-> 700, utilities |-> 1200, insurance |-> 1500] }

InitPlan ==
    /\ profile = NoProfile
    /\ llm_json = JNull
    /\ result = NoResult
    /\ assessments = <<>>
    /\ display = NoResult
    /\ op = "init"
    /\ response = "none"
    /\ pred \in Predictions
    /\ prefs \in Preferences
    /\ fixed \in FixedTables
    /\ plan = <<>>
    /\ ExtIdle

CallCalculateDynamicRatios ==
    /\ op = "init"
    /\ \E plan_type \in PlanTypes :
          plan' = [plan_type |-> plan_type,
                   ratios |-> calculate_dynamic_ratios(pred.income_volatility,
                                                       pred.growth_trend, plan_type)]
    /\ op' = "calculate_dynamic_ratios"
    /\ UNCHANGED <<extVars, assetVars, response, pred, prefs, fixed>>

CallGenerateMonthlyPlans ==
    /\ op = "init"
    /\ \E plan_type \in PlanTypes :
          LET ratios == calculate_dynamic_ratios(pred.income_volatility, pred.growth_trend,
                                                 plan_type)
          IN  plan' = [plan_type |-> plan_type,
                       ratios |-> ratios,
                       monthly_plans |-> generate_monthly_plans(pred.predicted_monthly_income,
                                             ratios, pred.growth_trend, fixed)]
    /\ op' = "generate_monthly_plans"
    /\ UNCHANGED <<extVars, assetVars, response, pred, prefs, fixed>>

GenerateAdaptivePlan ==
    /\ op = "init"
    /\ \E user \in {"none", "user"} :
          /\ plan' = generate_adaptive_plan(pred, prefs, user)
          /\ fixed' = fixed_expenses_for(user)
    /\ op' = "generate_adaptive_plan"
    /\ UNCHANGED <<extVars, assetVars, response, pred, prefs>>

NextPlan == CallCalculateDynamicRatios \/ CallGenerateMonthlyPlans \/ GenerateAdaptivePlan

SpecPlan == InitPlan /\ [][NextPlan]_vars

----------------------------------------------------------------------------
(* Claims about the plan generator, under SpecPlan *)

ReachableTiers(volatility) ==
    IF volatility > 3000 THEN {"conservative"}
    ELSE IF volatility > 1500 THEN {"conservative", "moderate"}
    ELSE PlanTypes

\* C9: for every combination of risk tier, volatility band and growth trend that
\* generate_adaptive_plan can reach, the 8 ratios of the allocation sum to 1.0
\* within 1e-4.
C9_ReachableSumWithinTolerance ==
    op = "generate_adaptive_plan" =>
        /\ plan.plan_type \in ReachableTiers(pred.income_volatility)
        /\ Abs(RatioSum(plan.ratios) - 10000) <= 1

\* C9 witness: a moderate allocation in the 25..30 band whose sum is off by 1e-4
C9_Witness ==
    /\ op = "generate_adaptive_plan"
    /\ plan.plan_type = "moderate"
    /\ pred.income_volatility > 2500 /\ pred.income_volatility <= 3000
    /\ RatioSum(plan.ratios) # 10000

\* the five variable categories of an entry
VariableTotal(e) == e.food + e.transport + e.healthcare + e.entertainment + e.other

NoNegativeComponent(e) ==
    /\ e.expected_income >= 0 /\ e.savings >= 0 /\ e.investment >= 0 /\ e.housing >= 0
    /\ e.food >= 0 /\ e.transport >= 0 /\ e.healthcare >= 0 /\ e.entertainment >= 0
    /\ e.other >= 0 /\ e.fixed_expenses_total >= 0 /\ e.telecom >= 0 /\ e.utilities >= 0

\* what the table in use takes from an entry's income besides savings and investment
TableCosts == FixedGet(fixed, "housing") + FixedGet(fixed, "telecom") + FixedGet(fixed, "utilities")

PlanProduced == op \in {"generate_adaptive_plan", "generate_monthly_plans"}

\* C10 as stated: in each of the 12 entries no component is negative and savings +
\* investment + housing + the five variable amounts + fixed_expenses_total is at
\* most expected_income, up to rounding
C10_TotalWithinIncome ==
    PlanProduced =>
        \A m \in 1..12 :
            LET e == plan.monthly_plans[m]
            IN  /\ NoNegativeComponent(e)
                /\ e.savings + e.investment + e.housing + VariableTotal(e)
                   + e.fixed_expenses_total <= e.expected_income + 3

\* C10: in each of the 12 entries (any non-negative predicted income, any trend,
\* any fixed-expense table) no component is negative, and the five variable
\* amounts together are at most what is left of expected_income after savings,
\* investment and the table's housing, telecom and utilities, floored at 0, up to
\* rounding; housing is the table's housing cost when the table has one.
C10_VariableWithinRemaining ==
    PlanProduced =>
        \A m \in 1..12 :
            LET e == plan.monthly_plans[m]
            IN  /\ NoNegativeComponent(e)
                /\ VariableTotal(e)
                   <= Max(0, e.expected_income - e.savings - e.investment - TableCosts) + 3
                /\ FixedGet(fixed, "housing") > 0 => e.housing = FixedGet(fixed, "housing")

\* C10 witness: an allocation of generate_adaptive_plan with a month whose income
\* does not cover savings, investment and the fixed costs (variable amounts 0) and
\* a month whose income does, where the stated total exceeds the income
C10_Witness ==
    /\ op = "generate_adaptive_plan"
    /\ \E m \in 1..12 :
          LET e == plan.monthly_plans[m]
          IN  /\ e.expected_income > 0
              /\ e.expected_income - e.savings - e.investment - TableCosts < 0
              /\ VariableTotal(e) = 0
    /\ \E m \in 1..12 :
          LET e == plan.monthly_plans[m]
          IN  /\ VariableTotal(e) > 0
              /\ e.savings + e.investment + e.housing + VariableTotal(e)
                 + e.fixed_expenses_total > e.expected_income + 3

----------------------------------------------------------------------------
(* Claims about the external call in assess and assess_mydata, under SpecAssess *)

\* a step of assess or assess_mydata that got past the login and profile checks
\* and whose external call raised
ExternalFailureStep ==
    /\ op' \in {"assess", "assess_mydata"}
    /\ response' # "error_message"
    /\ llm_json'.st = "raised"

\* C16: in assess and assess_mydata, for an authenticated user with a profile, when
\* the external call raises the request completes: exactly one Assessment is
\* created, its result is the deterministic base of the profile, and the answer is
\* the redirect to the detail page, not an error.
C16_ExternalFailureStoresBase ==
    [][ExternalFailureStep =>
          /\ response' = "redirect_detail"
          /\ Len(assessments') = Len(assessments) + 1
          /\ assessments'[Len(assessments')].result = fallback_assessment_from_profile(profile)
          /\ SubSeq(assessments', 1, Len(assessments)) = assessments]_vars

\* C16 witness: a handler whose external call raised has stored the base
C16_Witness ==
    /\ op \in {"assess", "assess_mydata"}
    /\ llm_json.st = "raised"
    /\ response = "redirect_detail"
    /\ Len(assessments) = 1
    /\ LastStored.result = fallback_assessment_from_profile(profile)
    /\ profile.income_6m > 0

----------------------------------------------------------------------------
(* plan/ai_services.py: FreelancerIncomePredictor, the statistical path.    *)
(* A history is [unit, incomes]: month i earned incomes[i] * unit KRW.  An  *)
(* exact Decimal amount is a fraction [num, den] in lowest terms, den > 0;  *)
(* a volatility or a confidence is in hundredths.                           *)

RECURSIVE GCD(_, _)
GCD(a, b) == IF b = 0 THEN a ELSE GCD(b, a % b)

Rat(num, den) ==
    LET g == GCD(Abs(num), den)
    IN  [num |-> num \div g, den |-> den \div g]

\* r * k for an integer k > 0
RatScale(r, k) ==
    LET g == GCD(k, r.den)
    IN  Rat(r.num * (k \div g), r.den \div g)

RatLess(a, b) == a.num * b.den < b.num * a.den

\* the largest s with s * s <= x, searched between lo and hi
RECURSIVE SqrtSearch(_, _, _)
SqrtSearch(x, lo, hi) ==
    IF lo >= hi THEN lo
    ELSE LET mid == (lo + hi + 1) \div 2
         IN  IF mid * mid <= x THEN SqrtSearch(x, mid, hi) ELSE SqrtSearch(x, lo, mid - 1)

\* k more decimal digits of r/d (r < d): [q, r] with q the digits, r the remainder
RECURSIVE DivDigits(_, _, _, _)
DivDigits(q, r, d, k) ==
    IF k = 0 THEN [q |-> q, r |-> r]
    ELSE DivDigits(10 * q + (10 * r) \div d, (10 * r) % d, d, k - 1)

\* line 332: the months that earned something
valid_incomes_of(incomes) == SelectSeq(incomes, LAMBDA x : x > 0)

\* sum of the last k items
LastSum(xs, k) == SumSeq(SubSeq(xs, Len(xs) - k + 1, Len(xs)))

\* lines 351-368: sample standard deviation over the mean, in percent, clamped to
\* [0, 100] and quantized to 2 decimals.  With n values of sum S the squared ratio
\* is Q / D for Q = sum of (n*x - S)^2 and D = (n-1) * S^2.
income_volatility_of(valid_incomes) ==
    LET n == Len(valid_incomes)
        S == SumSeq(valid_incomes)
        Q == SumSeq([i \in 1..n |-> (n * valid_incomes[i] - S) * (n * valid_incomes[i] - S)])
        D == (n - 1) * S * S
    IN  IF n <= 1 THEN 0
        ELSE IF Q >= D THEN 10000
        ELSE LET sq == DivDigits(0, Q, D, 8)
                 root == SqrtSearch(sq.q, 0, 10000)
                 over == sq.q - (root * root + root)
             IN  IF over > 0 \/ (over = 0 /\ 4 * sq.r > D) THEN root + 1
                 ELSE IF over = 0 /\ 4 * sq.r = D /\ root % 2 = 1 THEN root + 1
                 ELSE root

\* the month labels in the order sorted() gives them: 10, 11, 12, 1, ..., 9
SortedMonths == <<10, 11, 12, 1, 2, 3, 4, 5, 6, 7, 8, 9>>

analyze_seasonality(h) ==
    LET earning == SelectSeq(SortedMonths, LAMBDA m : m <= Len(h.incomes) /\ h.incomes[m] > 0)
    IN  IF earning = <<>> THEN [text |-> "unavailable", months |-> <<>>]
        ELSE [text |-> "analysis",
              months |-> [i \in 1..Len(earning) |-> <<earning[i], h.incomes[earning[i]] * h.unit>>]]

\* a trend that turns at 10 percent exactly
analyze_growth_trend_inclusive(valid_incomes) ==
    LET n == Len(valid_incomes)
        R == LastSum(valid_incomes, 3)
        O == SumSeq(valid_incomes) - R
        m == n - 3
    IN  IF n <= 3 THEN "stable"
        ELSE IF 10 * (R * m - 3 * O) >= 3 * O THEN "positive"
        ELSE IF 10 * (R * m - 3 * O) <= -(3 * O) THEN "negative"
        ELSE "stable"

\* (recent_avg - older_avg) / older_avg against 0.1 and -0.1, for recent = R/3 and
\* older = O/m: it is (R*m - 3*O) / (3*O)
analyze_growth_trend(valid_incomes) ==
    LET n == Len(valid_incomes)
        R == LastSum(valid_incomes, 3)
        O == SumSeq(valid_incomes) - R
        m == n - 3
    IN  IF n < 3 THEN "stable"
        ELSE IF n = 3 THEN "stable"
        ELSE IF 10 * (R * m - 3 * O) > 3 * O THEN "positive"
        ELSE IF 10 * (R * m - 3 * O) < -(3 * O) THEN "negative"
        ELSE "stable"


\* str(len / 12) against len / 12: the float's digits fall short of the fraction
\* (-1), overshoot it (1) or are the fraction (0)
DataQualityError(n) ==
    IF n \in {5, 7, 10} THEN 1 ELSE IF n \in {1, 2, 4, 8, 11} THEN -1 ELSE 0

\* (data_quality * 0.6 + volatility_factor * 0.4) * 100 quantized to 2 decimals,
\* where volatility_factor = clamp(1 - volatility / mean_income, 0, 1): in
\* hundredths it is 500 * min(n, 12) + 4000 - 40 * volatility * n / (S * unit)
calculate_confidence(valid_incomes, volatility, unit) ==
    LET n == Len(valid_incomes)
        den == SumSeq(valid_incomes) * unit
        num == 40 * volatility * n
        base == 500 * Min(n, 12) + 4000
        q == num \div den
        r == num % den
    IN  IF q >= 4000 THEN 500 * Min(n, 12)
        ELSE IF 2 * r < den THEN base - q
        ELSE IF 2 * r > den THEN base - q - 1
        ELSE IF DataQualityError(n) = 1 THEN base - q
        ELSE IF DataQualityError(n) = -1 THEN base - q - 1
        ELSE IF (base - q) % 2 = 0 THEN base - q ELSE base - q - 1

\* variant: the volatility index compared with 30 percent
VolatilityAboveThirty(valid_incomes, volatility, unit) ==
    volatility > 3000

\* volatility > mean_income * 0.3, the mean in KRW
VolatilityAboveMean(valid_incomes, volatility, unit) ==
    volatility * Len(valid_incomes) > 30 * SumSeq(valid_incomes) * unit

identify_risk_factors(valid_incomes, volatility, unit) ==
    LET n == Len(valid_incomes)
        R == LastSum(valid_incomes, 3)
        O == SumSeq(valid_incomes) - R
    IN  (IF VolatilityAboveMean(valid_incomes, volatility, unit) THEN <<"high_volatility">> ELSE <<>>)
        \o (IF n < 6 THEN <<"short_history">> ELSE <<>>)
        \o (IF SumSeq(valid_incomes) * unit < 2000000 * n THEN <<"low_income">> ELSE <<>>)
        \o (IF n > 3 /\ 5 * R * (n - 3) < 12 * O THEN <<"recent_decline">> ELSE <<>>)

generate_recommendations(valid_incomes, volatility, growth_trend, unit) ==
    (IF VolatilityAboveMean(valid_incomes, volatility, unit) THEN <<"diversify">> ELSE <<>>)
    \o (IF growth_trend = "negative" THEN <<"new_income_sources">> ELSE <<>>)
    \o (IF Len(valid_incomes) < 6 THEN <<"keep_recording">> ELSE <<>>)
    \o <<"emergency_fund", "review_plan">>

\* recent_avg * 0.6 + older_avg * 0.4, times 1.05 / 0.95 by the trend; the plain
\* mean under 3 values.  In KRW.
calculate_predicted_income(valid_incomes, growth_trend, unit) ==
    LET n == Len(valid_incomes)
        R == LastSum(valid_incomes, 3)
        O == SumSeq(valid_incomes) - R
        m == n - 3
        twentieths == IF growth_trend = "positive" THEN 21
                      ELSE IF growth_trend = "negative" THEN 19 ELSE 20
    IN  IF n > 3 THEN RatScale(Rat((R * m + 2 * O) * twentieths, 100 * m), unit)
        ELSE IF n = 3 THEN RatScale(Rat(R * twentieths, 60), unit)
        ELSE RatScale(Rat(SumSeq(valid_incomes), n), unit)

predict_with_statistics(h) ==
    LET valid_incomes == valid_incomes_of(h.incomes)
        volatility == income_volatility_of(valid_incomes)
        growth_trend == analyze_growth_trend(valid_incomes)
        predicted_monthly == calculate_predicted_income(valid_incomes, growth_trend, h.unit)
    IN  IF valid_incomes = <<>>
        THEN [predicted_monthly_income |-> Rat(0, 1),
              predicted_yearly_income |-> Rat(0, 1),
              confidence_level |-> 0,
              income_volatility |-> 0,
              seasonal_pattern |-> [text |-> "no_data", months |-> <<>>],
              risk_factors |-> <<"no_data">>,
              growth_trend |-> "unknown",
              recommendations |-> <<"collect_more_data">>,
              prediction_method |-> "statistical_fallback"]
        ELSE [predicted_monthly_income |-> predicted_monthly,
              predicted_yearly_income |-> RatScale(predicted_monthly, 12),
              confidence_level |-> calculate_confidence(valid_incomes, volatility, h.unit),
              income_volatility |-> volatility,
              seasonal_pattern |-> analyze_seasonality(h),
              risk_factors |-> identify_risk_factors(valid_incomes, volatility, h.unit),
              growth_trend |-> growth_trend,
              recommendations |-> generate_recommendations(valid_incomes, volatility,
                                                           growth_trend, h.unit),
              prediction_method |-> "statistical_fallback"]

----------------------------------------------------------------------------
(* plan/ai_services.py: FreelancerIncomePredictor, the external path.  A    *)
(* reply is [kind, text]: the call raised, gave no choices, gave no text,   *)
(* or gave the text (a sequence of words, "~~~" the code fence).            *)

\* the numbers re.findall(r"\d+(?:,\d{3})*(?:\.\d+)?") finds in a word, in KRW
WordNumbers(w) ==
    CASE w = "monthly=1500000" -> <<1500000>>
      [] w = "monthly=0" -> <<0>>
      [] w = "yearly=18000000" -> <<18000000>>
      [] w = "yearly=1" -> <<1>>
      [] w = "confidence=80" -> <<80>>
      [] w = "confidence=150" -> <<150>>
      [] w = "volatility=500" -> <<500>>
      [] w = "250000" -> <<250000>>
      [] w = "7" -> <<7>>
      [] OTHER -> <<>>

RECURSIVE TextNumbers(_)
TextNumbers(text) ==
    IF text = <<>> THEN <<>> ELSE WordNumbers(Head(text)) \o TextNumbers(Tail(text))

NoPrediction == [ok |-> FALSE, val |-> <<>>]

\* _extract_from_text: None when the text holds no number (or there is no valid
\* income to average: ZeroDivisionError, caught); else the first number between
\* 100,000 and 3 times the mean of the valid incomes, or that mean.  The mean is
\* kept exact; the code holds its float repr, and x12 of it is exact in Decimal.
extract_from_text(text, valid_incomes, unit) ==
    LET numbers == TextNumbers(text)
        n == Len(valid_incomes)
        total == SumSeq(valid_incomes) * unit
        reasonable_numbers == SelectSeq(numbers, LAMBDA num : 100000 <= num /\ num * n <= 3 * total)
        predicted_monthly == IF reasonable_numbers # <<>> THEN Rat(reasonable_numbers[1], 1)
                             ELSE Rat(total, n)
    IN  IF numbers = <<>> \/ n = 0 THEN NoPrediction
        ELSE [ok |-> TRUE,
              val |-> [predicted_monthly_income |-> predicted_monthly,
                       predicted_yearly_income |-> RatScale(predicted_monthly, 12),
                       confidence_level |-> IF reasonable_numbers # <<>> THEN 7500 ELSE 6000,
                       income_volatility |-> 1500,
                       seasonal_pattern |-> [text |-> "ai_result", months |-> <<>>],
                       risk_factors |-> <<"parse_limited">>,
                       growth_trend |-> "stable",
                       recommendations |-> <<"need_more_data">>]]

\* first index k >= from with text[k] = w, 0 when there is none
IndexFrom(text, w, from) ==
    LET hits == {k \in from..Len(text) : text[k] = w}
    IN  IF hits = {} THEN 0 ELSE CHOOSE k \in hits : \A j \in hits : k <= j

\* lines 221-230: the inside of the first code fence, when the fence is closed
fenced_block(text) ==
    LET tagged == {i \in 1..(Len(text) - 1) : text[i] = "~~~" /\ text[i + 1] = "json"}
        open == IF tagged # {} THEN (CHOOSE i \in tagged : \A j \in tagged : i <= j) + 2
                ELSE IndexFrom(text, "~~~", 1) + 1
        close == IndexFrom(text, "~~~", open)
    IN  IF tagged = {} /\ IndexFrom(text, "~~~", 1) = 0 THEN text
        ELSE IF close = 0 THEN text
        ELSE SubSeq(text, open, close - 1)

\* lines 233-236: a text opening with "{" is cut after its last "}"
object_span(text) ==
    LET closes == {k \in 1..Len(text) : text[k] = "}"}
    IN  IF text # <<>> /\ text[1] = "{" /\ closes # {}
        THEN SubSeq(text, 1, CHOOSE k \in closes : \A j \in closes : j <= k)
        ELSE text

\* Decimal(str(v)) raises
DecimalRaises(v) ==
    \/ v.t \notin {"num", "str"}
    \/ v.t = "str" /\ (v.s = <<>> \/ \E i \in 1..Len(v.s) : ~IsDigit(v.s[i]))

\* Decimal(str(v)) in hundredths
DecimalOf(v) == IF v.t = "num" THEN v.n ELSE 100 * DecimalValue(v.s)

\* the text of a JSON value that is one word
WordOf(v) == IF v.t = "str" /\ Len(v.s) = 1 THEN v.s[1] ELSE "not_a_word"

\* lines 238-275: the JSON reading of the trimmed text; ok = FALSE wherever the
\* code turns to _extract_from_text (not JSON, not an object, a required field
\* missing, a value Decimal rejects, the range check).  Only the monthly income
\* and the confidence are range-checked.
structured_prediction(text) ==
    LET loaded == json_loads(text)
        data == loaded.v.d
        required_fields == {"predicted_monthly_income", "predicted_yearly_income", "confidence"}
        predicted_monthly == DecimalOf(data["predicted_monthly_income"])
        predicted_yearly == DecimalOf(data["predicted_yearly_income"])
        confidence == DecimalOf(data["confidence"])
        volatility == DecimalOf(GetOr(data, "volatility", JInt(0)))
    IN  IF ~loaded.ok THEN NoPrediction
        ELSE IF loaded.v.t # "dict" THEN NoPrediction
        ELSE IF ~(required_fields \subseteq DOMAIN data) THEN NoPrediction
        ELSE IF \/ DecimalRaises(data["predicted_monthly_income"])
                \/ DecimalRaises(data["predicted_yearly_income"])
                \/ DecimalRaises(data["confidence"])
                \/ DecimalRaises(GetOr(data, "volatility", JInt(0)))
             THEN NoPrediction
        ELSE IF predicted_monthly <= 0 \/ confidence < 0 \/ confidence > 10000
             THEN NoPrediction
        ELSE [ok |-> TRUE,
              val |-> [predicted_monthly_income |-> Rat(predicted_monthly, 100),
                       predicted_yearly_income |-> Rat(predicted_yearly, 100),
                       confidence_level |-> confidence,
                       income_volatility |-> volatility,
                       seasonal_pattern |-> [text |-> "no_seasonal_analysis", months |-> <<>>],
                       risk_factors |-> <<>>,
                       growth_trend |-> WordOf(GetOr(data, "growth_trend", JStr(<<"stable">>))),
                       recommendations |-> <<>>]]

\* lines 219-236: the reply cut to its fenced block and to its last "}"
trimmed(ai_text) == object_span(fenced_block(ai_text))

\* _parse_ai_response: [ok, val], ok = FALSE for None
parse_ai_response(ai_text, valid_incomes, unit) ==
    LET structured == structured_prediction(trimmed(ai_text))
    IN  IF structured.ok THEN structured
        ELSE extract_from_text(trimmed(ai_text), valid_incomes, unit)

\* lines 98-101, 119-125, 137-141: the parsed reply with the endpoint's name
WithMethod(parsed, method) ==
    [ok |-> TRUE,
     val |-> [k \in DOMAIN parsed.val \cup {"prediction_method"} |->
                IF k = "prediction_method" THEN method ELSE parsed.val[k]]]

\* what one endpoint call yields: None when it raised, gave nothing, or its
\* text did not parse
endpoint_result(r, valid_incomes, unit, method) ==
    IF r.kind # "text" THEN NoPrediction
    ELSE LET parsed == parse_ai_response(r.text, valid_incomes, unit)
         IN  IF parsed.ok THEN WithMethod(parsed, method) ELSE NoPrediction

after_preprocess_client_only(has_client, valid_incomes) ==
    IF has_client THEN "chat_completion" ELSE "statistics"

\* lines 70-81: the external path is entered only with a client and at least
\* one positive income
after_preprocess(has_client, valid_incomes) ==
    IF has_client /\ valid_incomes # <<>> THEN "chat_completion" ELSE "statistics"

after_endpoint_single(endpoint, parsed) ==
    IF parsed.ok THEN "done" ELSE "statistics"

\* lines 86-143: a parsed reply is returned at once; a failed endpoint hands over
\* to the next one, the last to the statistical fallback of predict_income
after_endpoint(endpoint, parsed) ==
    IF parsed.ok THEN "done"
    ELSE CASE endpoint = "chat_completion" -> "conversational"
           [] endpoint = "conversational" -> "text_generation"
           [] OTHER -> "statistics"

----------------------------------------------------------------------------
(* Inputs of the income prediction. *)

\* twelve monthly incomes, in units of history.unit KRW
Histories ==
    {[m \in 1..12 |-> 0],
     [m \in 1..12 |-> IF m = 3 THEN -5 ELSE 0],
     [m \in 1..12 |-> IF m = 12 THEN 300 ELSE 0],
     [m \in 1..12 |-> IF m = 1 THEN 1 ELSE IF m = 12 THEN 3 ELSE 0],
     [m \in 1..12 |-> IF m \in {2, 7, 11} THEN 100 * ((m % 3) + 1) ELSE 0],
     [m \in 1..12 |-> 200],
     [m \in 1..12 |-> IF m > 9 THEN 300 ELSE 100],
     [m \in 1..12 |-> IF m > 9 THEN 100 ELSE 300],
     [m \in 1..12 |-> IF m <= 5 THEN 7 ELSE 1],
     <<300, 0, 150, 200, 100, 0, 0, 300, 300, 150, 200, 100>>,
     <<10, 330, 0, 5, 250, 0, 0, 40, 300, 0, 20, 1>>}

Units == {1, 10000}

\* the JSON objects an answer may hold: any choice of members in a fixed order
PredictionObjects ==
    {<<"{">> \o m \o y \o c \o e \o <<"}">> :
        m \in {<<>>, <<"monthly=1500000">>, <<"monthly=0">>, <<"monthly=abc">>},
        y \in {<<>>, <<"yearly=18000000">>, <<"yearly=1">>},
        c \in {<<>>, <<"confidence=80">>, <<"confidence=150">>},
        e \in {<<>>, <<"volatility=500", "trend=sideways">>}}

PredictionDocs ==
    PredictionObjects
      \cup {<<>>, <<"x">>, <<"x", "250000">>, <<"7">>, <<"null">>, <<"{", "monthly=1500000">>,
            <<"{", "x", "}">>}

\* an answer is a document, bare, after prose, or in a code fence
PredictionTexts ==
    PredictionDocs
      \cup {<<"x">> \o d : d \in PredictionDocs}
      \cup {<<"~~~", "json">> \o d \o <<"~~~">> : d \in PredictionDocs}
      \cup {<<"~~~">> \o d \o <<"~~~", "x">> : d \in PredictionDocs}
      \cup {<<"~~~", "json">> \o d : d \in PredictionDocs}

\* what each endpoint can give back
Replies(endpoint) ==
    {[kind |-> k, text |-> <<>>] :
        k \in CASE endpoint = "chat_completion" -> {"raised", "no_choices", "no_text"}
                [] endpoint = "conversational" -> {"raised"}
                [] OTHER -> {"raised", "no_text"}}
      \cup {[kind |-> "text", text |-> t] : t \in PredictionTexts}

----------------------------------------------------------------------------
(* predict_income as a process: one step per external call. *)

valid_incomes_now == valid_incomes_of(history.incomes)

InitPredict ==
    /\ profile = NoProfile
    /\ llm_json = JNull
    /\ result = NoResult
    /\ assessments = <<>>
    /\ display = NoResult
    /\ op = "init"
    /\ response = "none"
    /\ pred = <<>> /\ prefs = <<>> /\ fixed = <<>> /\ plan = <<>>
    /\ history \in {[unit |-> u, incomes |-> h] : u \in Units, h \in Histories}
    /\ client \in BOOLEAN
    /\ calls = <<>>
    /\ pc = "predict_income"
    /\ reply = [kind |-> "none", text |-> <<>>]
    /\ prediction = NoPrediction
    /\ args = <<>>
    /\ store = EmptyStore
    /\ snapshots = NoCredit

\* predict_income enters _predict_with_llama, which returns None before any
\* external call when there is no client or no positive income
Preprocess ==
    /\ pc = "predict_income"
    /\ pc' = after_preprocess(client, valid_incomes_now)
    /\ UNCHANGED <<assetVars, planVars, op, response, history, client, calls, reply, prediction, args, store, snapshots>>

\* one external call, its reply parsed
CallEndpoint(endpoint) ==
    /\ pc = endpoint
    /\ \E r \in Replies(endpoint) :
          LET parsed == endpoint_result(r, valid_incomes_now, history.unit, "ai_" \o endpoint)
          IN  /\ reply' = r
              /\ calls' = Append(calls, endpoint)
              /\ prediction' = parsed
              /\ pc' = after_endpoint(endpoint, parsed)
    /\ UNCHANGED <<assetVars, planVars, op, response, history, client, args, store, snapshots>>

ChatCompletion == CallEndpoint("chat_completion")
Conversational == CallEndpoint("conversational")
TextGeneration == CallEndpoint("text_generation")

\* lines 61-63: the statistical fallback
StatisticalFallback ==
    /\ pc = "statistics"
    /\ prediction' = [ok |-> TRUE, val |-> predict_with_statistics(history)]
    /\ pc' = "done"
    /\ UNCHANGED <<assetVars, planVars, op, response, history, client, calls, reply, args, store, snapshots>>

NextPredict ==
    \/ Preprocess
    \/ ChatCompletion
    \/ Conversational
    \/ TextGeneration
    \/ StatisticalFallback

SpecPredict == InitPredict /\ [][NextPredict]_vars

----------------------------------------------------------------------------
(* Claims about predict_income. *)

PredictionReturned == pc = "done" /\ prediction.ok

\* C11: a history with no positive income never reaches the external generator,
\* client or not, and predict_income returns confidence 0, predicted monthly and
\* yearly income 0, the insufficient-data risk factor and provenance
\* statistical_fallback.
C11_NoIncomeIsStatisticalZero ==
    valid_incomes_now = <<>> =>
        /\ calls = <<>>
        /\ pc = "done" =>
              /\ prediction.ok
              /\ prediction.val.confidence_level = 0
              /\ prediction.val.predicted_monthly_income = Rat(0, 1)
              /\ prediction.val.predicted_yearly_income = Rat(0, 1)
              /\ \E i \in DOMAIN prediction.val.risk_factors : prediction.val.risk_factors[i] = "no_data"
              /\ prediction.val.prediction_method = "statistical_fallback"

C11_Witness ==
    /\ client
    /\ \E m \in 1..12 : history.incomes[m] < 0
    /\ valid_incomes_now = <<>>
    /\ PredictionReturned
    /\ prediction.val.confidence_level = 0
    /\ prediction.val.risk_factors = <<"no_data">>

TrendWords == {"positive", "stable", "negative"}

\* C12: every result predict_income returns has its confidence level in
\* [0, 100], its volatility index in [0, 100] and its growth trend among
\* positive, stable, negative.
C12_PredictionInRange ==
    PredictionReturned =>
        /\ 0 <= prediction.val.confidence_level /\ prediction.val.confidence_level <= 10000
        /\ 0 <= prediction.val.income_volatility /\ prediction.val.income_volatility <= 10000
        /\ prediction.val.growth_trend \in TrendWords

\* C13: every result predict_income returns has predicted_yearly_income equal to
\* 12 times predicted_monthly_income, whichever path produced it.
C13_YearlyIsTwelveMonthly ==
    PredictionReturned =>
        prediction.val.predicted_yearly_income = RatScale(prediction.val.predicted_monthly_income, 12)

\* the last external reply was malformed: its text is not JSON, lacks a
\* required field or fails the range check
MalformedReply == reply.kind = "text" /\ ~structured_prediction(trimmed(reply.text)).ok

\* C14: when the external reply is malformed, predict_income returns exactly the
\* result of _predict_with_statistics for the history, with provenance
\* statistical_fallback.
C14_MalformedReplyGivesStatistics ==
    (PredictionReturned /\ MalformedReply) =>
        /\ prediction.val = predict_with_statistics(history)
        /\ prediction.val.prediction_method = "statistical_fallback"

EndpointOrder == <<"chat_completion", "conversational", "text_generation">>

\* C15: within one predict_income the external endpoints are called in the order
\* chat completion, conversational, text generation, each at most once and only
\* while no reply has been parsed; the statistical fallback starts only after
\* all three have failed, or with no call at all when there is no client or no
\* positive income.
C15_EndpointsInOrderOnce ==
    [][/\ \E k \in 0..3 : calls' = SubSeq(EndpointOrder, 1, k)
       /\ calls' # calls =>
             /\ ~prediction.ok
             /\ calls' = Append(calls, EndpointOrder[Len(calls) + 1])
       /\ (pc' = "statistics" /\ pc # "statistics") =>
             calls' = IF client /\ valid_incomes_now # <<>> THEN EndpointOrder ELSE <<>>]_vars

C15_Witness ==
    /\ pc = "done"
    /\ calls = EndpointOrder
    /\ reply.kind = "raised"
    /\ prediction.ok
    /\ prediction.val.prediction_method = "statistical_fallback"

\* C15 as stated: one external attempt at most, its failure followed at once by
\* the statistical fallback
C15_SingleAttempt ==
    [][/\ Len(calls') <= 1
       /\ (calls' # calls /\ ~prediction'.ok) => pc' = "statistics"]_vars

----------------------------------------------------------------------------
(* plan/views.py: _safe_decimal.  A string is a sequence of characters, "<won>" *)
(* and "<won-sign>" the two currency glyphs; a Decimal is [k, neg, coef, exp],   *)
(* kept in lowest terms of ten so that equal numbers are equal records.          *)

RECURSIVE DecNorm(_, _, _)
DecNorm(neg, coef, exp) ==
    IF coef = 0 THEN [k |-> "finite", neg |-> FALSE, coef |-> 0, exp |-> 0]
    ELSE IF coef % 10 = 0 THEN DecNorm(neg, coef \div 10, exp + 1)
    ELSE [k |-> "finite", neg |-> neg, coef |-> coef, exp |-> exp]

DecNaN == [k |-> "nan", neg |-> FALSE, coef |-> 0, exp |-> 0]
DecInfinity(neg) == [k |-> "inf", neg |-> neg, coef |-> 0, exp |-> 0]

\* Decimal(str(number)) of a JSON number held in hundredths
DecimalOfNumber(n) == DecNorm(n < 0, Abs(n), -2)

\* Decimal(text): [ok, val], ok = FALSE for InvalidOperation.  A literal is an
\* optional "-", digits with at most one "." and at least one digit; or NaN, or
\* Infinity with an optional "-".
DecimalOfText(chars) ==
    LET neg == chars # <<>> /\ chars[1] = "-"
        body == IF neg THEN Tail(chars) ELSE chars
        dots == {i \in 1..Len(body) : body[i] = "."}
        digits == SelectSeq(body, IsDigit)
        dot == CHOOSE i \in dots : TRUE
    IN  IF chars = <<"NaN">> THEN [ok |-> TRUE, val |-> DecNaN]
        ELSE IF body = <<"Infinity">> THEN [ok |-> TRUE, val |-> DecInfinity(neg)]
        ELSE IF /\ digits # <<>>
                /\ Cardinality(dots) <= 1
                /\ Len(digits) + Cardinality(dots) = Len(body)
             THEN [ok |-> TRUE,
                   val |-> DecNorm(neg, DecimalValue(digits),
                                   IF dots = {} THEN 0 ELSE dot - Len(body))]
        ELSE [ok |-> FALSE, val |-> DecNaN]

RECURSIVE Strip(_)
\* str.strip()
Strip(chars) ==
    IF chars # <<>> /\ chars[1] = " " THEN Strip(Tail(chars))
    ELSE IF chars # <<>> /\ chars[Len(chars)] = " " THEN Strip(SubSeq(chars, 1, Len(chars) - 1))
    ELSE chars

\* lines 42-48: commas, percent signs and currency glyphs removed, then stripped
Cleaned(chars) ==
    Strip(SelectSeq(chars, LAMBDA c : c \notin {",", "%", "<won>", "<won-sign>"}))

DecimalReturned(d) == [st |-> "ok", val |-> d]
DecimalRaised == [st |-> "raised", val |-> DecNaN]

\* Decimal(str(default)), outside every try block
DecimalOfDefault(default) ==
    IF DecimalOfText(default).ok THEN DecimalReturned(DecimalOfText(default).val)
    ELSE DecimalRaised

safe_decimal_uncaught(value, default) ==
    LET v == IF value.t = "null" THEN JStr(default) ELSE value
        cleaned == IF Cleaned(v.s) = <<>> THEN default ELSE Cleaned(v.s)
    IN  IF v.t = "num" THEN DecimalReturned(DecimalOfNumber(v.n))
        ELSE IF v.t # "str" THEN DecimalOfDefault(default)
        ELSE IF DecimalOfText(cleaned).ok THEN DecimalReturned(DecimalOfText(cleaned).val)
        ELSE DecimalRaised

\* _safe_decimal(value, default): [st, val].  A bool is an int to isinstance, and
\* Decimal("True") raises inside the first try.
safe_decimal(value, default) ==
    LET v == IF value.t = "null" THEN JStr(default) ELSE value
        cleaned == IF Cleaned(v.s) = <<>> THEN default ELSE Cleaned(v.s)
    IN  IF v.t = "num" THEN DecimalReturned(DecimalOfNumber(v.n))
        ELSE IF v.t # "str" THEN DecimalOfDefault(default)
        ELSE IF DecimalOfText(cleaned).ok THEN DecimalReturned(DecimalOfText(cleaned).val)
        ELSE DecimalOfDefault(default)

----------------------------------------------------------------------------
(* Inputs of _safe_decimal. *)

MaxInputLen == 3

InputChars == {"0", "1", "5", ",", "%", "<won>", "<won-sign>", " ", ".", "-", "x"}

RECURSIVE StringsUpTo(_)
StringsUpTo(n) ==
    IF n = 0 THEN {<<>>}
    ELSE StringsUpTo(n - 1)
           \cup {Append(w, c) : w \in {x \in StringsUpTo(n - 1) : Len(x) = n - 1}, c \in InputChars}

\* what a form field or a JSON member can hold
CoercionValues ==
    {JStr(w) : w \in StringsUpTo(MaxInputLen)}
      \cup {JStr(<<"NaN">>), JStr(<<"-", "Infinity">>), JStr(<<"1", "0", ",", "0", "0", "0", "<won>">>)}
      \cup {JNull, JBool(TRUE), JList(<<>>), JDict(NoMembers), JInt(7), JNum(-250), JInt(0)}

\* the defaults of the call sites (lines 120-131, 152, 206-211, 861-867)
CoercionDefaults == {<<"0">>, <<"2", "0">>}

InitCoerce ==
    /\ profile = NoProfile
    /\ llm_json = JNull
    /\ result = NoResult
    /\ assessments = <<>>
    /\ display = NoResult
    /\ op = "init"
    /\ response = "none"
    /\ pred = <<>> /\ prefs = <<>> /\ fixed = <<>> /\ plan = <<>>
    /\ PredictIdle
    /\ args \in [value : CoercionValues, default : CoercionDefaults]
    /\ store = EmptyStore
    /\ snapshots = NoCredit

CallSafeDecimal ==
    /\ op = "init"
    /\ result' = safe_decimal(args.value, args.default)
    /\ op' = "_safe_decimal"
    /\ UNCHANGED <<profile, llm_json, assessments, display, planVars, predictVars, response, args, store, snapshots>>

NextCoerce == CallSafeDecimal

SpecCoerce == InitCoerce /\ [][NextCoerce]_vars

----------------------------------------------------------------------------
(* Claims about _safe_decimal, under SpecCoerce *)

\* the value leaves no decimal literal: None, a bool, a list, a dict, or a string
\* that, once cleaned, is empty or not a literal
LeavesNoLiteral(value) ==
    \/ value.t \in {"null", "bool", "list", "dict"}
    \/ value.t = "str" /\ ~DecimalOfText(Cleaned(value.s)).ok

\* C17: _safe_decimal never raises and returns a Decimal: Decimal(default) for
\* None, an empty string, a string that is no decimal literal once commas,
\* percent signs, currency glyphs and surrounding blanks are removed, and a value
\* of an unsupported type; the parsed value otherwise.
C17_CoercionNeverRaises ==
    op = "_safe_decimal" =>
        /\ result.st = "ok"
        /\ result.val =
              IF LeavesNoLiteral(args.value) THEN DecimalOfText(args.default).val
              ELSE IF args.value.t = "num" THEN DecimalOfNumber(args.value.n)
              ELSE DecimalOfText(Cleaned(args.value.s)).val

C17_Witness ==
    /\ op = "_safe_decimal"
    /\ args.value = JStr(<<"x", ",", "5">>)
    /\ args.default = <<"2", "0">>
    /\ result = DecimalReturned(DecNorm(FALSE, 2, 1))

----------------------------------------------------------------------------
(* plan/views.py, plan/models.py: the request handlers of the plan application  *)
(* and the rows of the requesting user.  store.predictions holds the            *)
(* IncomePrediction rows, store.plans the FinancialPlan rows, each with its     *)
(* MonthlyPlan rows; every write is committed as it is made.                    *)

\* rows the user's requests create in all
MaxRows == 3

\* QueryDict.get(k, default), dict.get(k, default)
FieldOr(v, default) == IF v = Absent THEN default ELSE v

RECURSIVE Pow10(_)
Pow10(k) == IF k <= 0 THEN 1 ELSE 10 * Pow10(k - 1)

\* a finite Decimal amount of KRW in units of 10,000 KRW, the scale of
\* history.incomes; the posted amounts are multiples of that unit
TenThousands(d) ==
    IF d.coef = 0 THEN 0
    ELSE (IF d.neg THEN -1 ELSE 1) * d.coef * Pow10(d.exp - 4)

history_of(monthly_incomes) ==
    [unit |-> 10000, incomes |-> [m \in 1..12 |-> TenThousands(monthly_incomes[m])]]

\* a KRW amount in the plan generator's unit of 100 KRW
Hundreds(amount) == RoundHalfEven(amount.num, amount.den * 100)

\* FreelancerIncomePredictor().predict_income(monthly_incomes, income_type) in a
\* handler, no API key being configured (lines 30, 37-40: no client): the
\* outcomes [st, val].  _predict_with_statistics compares each Decimal with 0,
\* which raises InvalidOperation for NaN.
handler_predictions(monthly_incomes) ==
    IF \A m \in 1..12 : monthly_incomes[m].k = "finite"
    THEN {[st |-> "ok", val |-> predict_with_statistics(history_of(monthly_incomes))]}
    ELSE {[st |-> "raised", val |-> <<>>]}

\* models.py 6-45: a new IncomePrediction row, every amount at its default 0
new_prediction(id, income_type) ==
    [id |-> id, income_type |-> income_type,
     monthly_incomes |-> [m \in 1..12 |-> DecNorm(FALSE, 0, 0)],
     predicted_monthly_income |-> 0, income_volatility |-> 0, confidence_level |-> 0]

\* the row after the handler copied the incomes and the prediction and saved it;
\* the predicted income is held to the plan generator's 100 KRW
saved_prediction(row, monthly_incomes, prediction_result) ==
    [row EXCEPT !.monthly_incomes = monthly_incomes,
                !.predicted_monthly_income = Hundreds(prediction_result.predicted_monthly_income),
                !.income_volatility = prediction_result.income_volatility,
                !.confidence_level = prediction_result.confidence_level]

RowIds(rows) == {rows[i].id : i \in 1..Len(rows)}
RowOf(rows, id) == rows[CHOOSE i \in 1..Len(rows) : rows[i].id = id]
PutRow(rows, row) == [i \in 1..Len(rows) |-> IF rows[i].id = row.id THEN row ELSE rows[i]]

\* timezone.now() when a plan is created
CreationTimes == {[year |-> 2026, month |-> 1], [year |-> 2026, month |-> 11]}

\* views.py 540-546: the calendar month of the MonthlyPlan at offset i (0..11)
\* of a plan created at `now`
target_month(now, i) ==
    IF now.month + i > 12 THEN [year |-> now.year + 1, month |-> now.month + i - 12]
    ELSE [year |-> now.year, month |-> now.month + i]

\* views.py 540-612: the twelve MonthlyPlan rows made from the generator's
\* monthly plans, the i-th entry stored under the i-th calendar month from now
monthly_plan_rows(now, monthly_plans_data) ==
    [k \in 1..12 |->
        LET plan_data == monthly_plans_data[k]
            target == target_month(now, k - 1)
        IN  [year |-> target.year, month |-> target.month,
             expected_income |-> plan_data.expected_income,
             housing_expense |-> plan_data.housing,
             food_expense |-> plan_data.food,
             transportation_expense |-> plan_data.transport,
             healthcare_expense |-> plan_data.healthcare,
             entertainment_expense |-> plan_data.entertainment,
             other_expenses |-> plan_data.other,
             savings_amount |-> plan_data.savings,
             investment_amount |-> plan_data.investment,
             credit_card_payment |-> RoundHalfEven(plan_data.expected_income * 5, 100),
             loan_payment |-> RoundHalfEven(plan_data.expected_income * 5, 100)]]

\* views.py 516-628 after FinancialPlan.objects.create: the plan row with its
\* twelve MonthlyPlan rows and its credit target
planned(id, prediction_row, plan_type, target_savings_rate, emergency_fund_target, current_credit_score, dynamic_plan, now) ==
    [id |-> id, income_prediction |-> prediction_row.id, plan_type |-> plan_type,
     target_savings_rate |-> target_savings_rate,
     emergency_fund_target |-> emergency_fund_target,
     current_credit_score |-> current_credit_score,
     target_credit_score |-> Min(current_credit_score + 50, 950),
     monthly_plans |-> monthly_plan_rows(now, dynamic_plan.monthly_plans)]

\* the prediction_result a handler rebuilds for the plan generator
rebuilt_prediction(prediction_row, risk_factors, growth_trend) ==
    [predicted_monthly_income |-> prediction_row.predicted_monthly_income,
     income_volatility |-> prediction_row.income_volatility,
     risk_factors |-> risk_factors,
     growth_trend |-> growth_trend]

\* Decimal(str(v)) of a JSON value: [ok, val], ok = FALSE when it raises
decimal_of_str(v) ==
    IF v.t = "num" THEN [ok |-> TRUE, val |-> DecimalOfNumber(v.n)]
    ELSE IF v.t = "str" THEN DecimalOfText(v.s)
    ELSE [ok |-> FALSE, val |-> DecNaN]

\* a finite Decimal d as the whole number d * 10^k
ScaledDecimal(d, k) ==
    IF d.coef = 0 THEN 0
    ELSE (IF d.neg THEN -1 ELSE 1) * d.coef * Pow10(d.exp + k)

\* quick_start, GET (lines 99-140): a new row seeded with the default incomes
DefaultIncomes == <<100, 110, 120, 130, 140, 100, 110, 90, 120, 150, 160, 140>>

seeded_incomes ==
    [m \in 1..12 |-> safe_decimal(JInt(DefaultIncomes[m] * 10000), <<"0">>).val]

\* IncomePrediction.objects.filter(user=...).update(...) of api_seed_and_generate
zeroed(rows) ==
    [i \in 1..Len(rows) |-> new_prediction(rows[i].id, rows[i].income_type)]

----------------------------------------------------------------------------
(* Requests. *)

TwoMillion == <<"2", ",", "0", "0", "0", ",", "0", "0", "0">>
OneMillionWon == <<"1", "0", "0", "0", "0", "0", "0", "<won>">>

\* the twelve income fields of a form or a JSON body
PostedIncomes ==
    {[m \in 1..12 |-> JStr(TwoMillion)],
     [m \in 1..12 |-> JStr(<<"a", "b", "c">>)],
     [m \in 1..12 |-> IF m = 1 THEN JStr(<<"NaN">>)
                      ELSE IF m = 2 THEN Absent
                      ELSE IF m = 3 THEN JStr(OneMillionWon) ELSE JStr(TwoMillion)]}

\* the monthly_incomes member of a JSON body; <<>> when missing or empty
JsonIncomes ==
    {<<>>,
     [m \in 1..12 |-> JInt(2000000)],
     [m \in 1..12 |-> IF m = 1 THEN JStr(<<"a", "b", "c">>)
                      ELSE IF m = 2 THEN JNull ELSE JInt(2000000)]}

PlanForms ==
    { [plan_type |-> "conservative", target_savings_rate |-> choice[1],
       emergency_fund_target |-> JStr(TwoMillion), current_credit_score |-> choice[2]] :
        choice \in {<<JStr(<<"1", "5", "%">>), Absent>>,
                    <<JStr(<<"x">>), JStr(<<"7", "0", "0">>)>>,
                    <<JStr(<<"1", "5", "%">>), JStr(<<"a", "b", "c">>)>>} }

SeedBodies ==
    { [monthly_incomes |-> choice[1], plan_type |-> "aggressive",
       target_savings_rate |-> Absent, emergency_fund_target |-> Absent,
       current_credit_score |-> choice[2]] :
        choice \in (JsonIncomes \X {Absent}) \cup {<<<<>>, JStr(<<"a", "b", "c">>)>>} }

KpiBodies ==
    {[valid_json |-> FALSE, target_savings_rate |-> Absent]}
      \cup [valid_json : {TRUE},
            target_savings_rate : {Absent, JInt(35), JStr(<<"x">>)}]

GeneratePlanBodies ==
    { [predicted_monthly_income |-> choice[1], income_volatility |-> choice[2]] :
        choice \in {<<Absent, Absent>>, <<JInt(2000000), Absent>>,
                    <<JInt(2000000), JStr(<<"x">>)>>, <<JStr(<<"a", "b", "c">>), Absent>>} }

InitStore ==
    /\ profile = NoProfile
    /\ llm_json = JNull
    /\ result = NoResult
    /\ assessments = <<>>
    /\ display = NoResult
    /\ op = "init"
    /\ response = "none"
    /\ pred = <<>> /\ prefs = <<>> /\ fixed = <<>> /\ plan = <<>>
    /\ PredictIdle
    /\ args = <<>>
    /\ store = EmptyStore
    /\ snapshots = NoCredit

StoreFrame == UNCHANGED <<assetVars, planVars, predictVars, snapshots>>

----------------------------------------------------------------------------
(* Handlers: each action is one request of the user, from receipt to response. *)

QuickStartGet ==
    /\ store.next_id <= MaxRows
    /\ store' = [store EXCEPT
                   !.predictions = Append(@, [new_prediction(store.next_id, "freelance")
                                                EXCEPT !.monthly_incomes = seeded_incomes]),
                   !.next_id = @ + 1]
    /\ args' = [prediction_id |-> 0]
    /\ op' = "quick_start"
    /\ response' = "page"
    /\ StoreFrame

QuickStartPost ==
    /\ \E prediction_id \in RowIds(store.predictions) \cup {0} :
          /\ args' = [prediction_id |-> prediction_id]
          /\ IF prediction_id \notin RowIds(store.predictions)
             THEN response' = "not_found" /\ store' = store
             ELSE LET row == RowOf(store.predictions, prediction_id)
                  IN  \E r \in handler_predictions(row.monthly_incomes) :
                         IF r.st = "raised"
                         THEN response' = "server_error" /\ store' = store
                         ELSE /\ response' = "redirect_create_plan"
                              /\ store' = [store EXCEPT !.predictions =
                                             PutRow(@, saved_prediction(row, row.monthly_incomes, r.val))]
    /\ op' = "quick_start"
    /\ StoreFrame

\* income_prediction, POST (lines 145-193): line 156 deletes every IncomePrediction
\* of the user, and with them (on_delete=CASCADE, models.py 56 and 84) the plans
\* made from them and their monthly plans
IncomePredictionPost ==
    /\ store.next_id <= MaxRows
    /\ \E form \in PostedIncomes :
          LET monthly_incomes ==
                  [m \in 1..12 |-> safe_decimal(FieldOr(form[m], JStr(<<"0">>)), <<"0">>).val]
              row == new_prediction(store.next_id, "freelance")
          IN  /\ args' = [monthly_incomes |-> form]
              /\ \E r \in handler_predictions(monthly_incomes) :
                    IF r.st = "raised"
                    THEN /\ response' = "server_error"
                         /\ store' = [predictions |-> <<row>>, plans |-> <<>>,
                                      next_id |-> store.next_id + 1]
                    ELSE /\ response' = "redirect_create_plan"
                         /\ store' = [predictions |-> <<saved_prediction(row, monthly_incomes, r.val)>>,
                                      plans |-> <<>>,
                                      next_id |-> store.next_id + 1]
    /\ op' = "income_prediction"
    /\ StoreFrame

\* create_financial_plan, POST (lines 198-245)
CreateFinancialPlanPost ==
    /\ store.next_id <= MaxRows
    /\ \E prediction_id \in RowIds(store.predictions) \cup {0}, form \in PlanForms, now \in CreationTimes :
          LET target_savings_rate ==
                  safe_decimal(FieldOr(form.target_savings_rate, JStr(<<"2", "0">>)), <<"2", "0">>).val
              emergency_fund_target ==
                  safe_decimal(FieldOr(form.emergency_fund_target, JStr(<<"0">>)), <<"0">>).val
              current_credit_score == FieldOr(form.current_credit_score, JInt(0))
              prediction_row == RowOf(store.predictions, prediction_id)
              dynamic_plan ==
                  generate_adaptive_plan(rebuilt_prediction(prediction_row, <<>>, "stable"),
                                         [plan_type |-> form.plan_type,
                                          target_savings_rate |-> target_savings_rate],
                                         "user")
          IN  /\ args' = [prediction_id |-> prediction_id, form |-> form]
              /\ IF prediction_id \notin RowIds(store.predictions)
                 THEN response' = "not_found" /\ store' = store
                 ELSE IF IntRaises(current_credit_score)
                 THEN response' = "server_error" /\ store' = store
                 ELSE /\ response' = "redirect_plan_detail"
                      /\ store' = [store EXCEPT
                                     !.plans = Append(@, planned(store.next_id, prediction_row,
                                                                 form.plan_type, target_savings_rate,
                                                                 emergency_fund_target,
                                                                 IntOf(current_credit_score),
                                                                 dynamic_plan, now)),
                                     !.next_id = @ + 1]
    /\ op' = "create_financial_plan"
    /\ StoreFrame

\* api_apply_kpi (lines 485-505)
ApiApplyKpi ==
    /\ \E plan_id \in RowIds(store.plans) \cup {0}, body \in KpiBodies :
          LET row == RowOf(store.plans, plan_id)
              target_savings == body.target_savings_rate
          IN  /\ args' = [plan_id |-> plan_id, body |-> body]
              /\ IF plan_id \notin RowIds(store.plans)
                 THEN response' = "not_found" /\ store' = store
                 ELSE IF ~body.valid_json
                 THEN response' = "json_error_400" /\ store' = store
                 ELSE IF target_savings \in {Absent, JNull}
                 THEN response' = "json_success" /\ store' = store
                 ELSE IF ~decimal_of_str(target_savings).ok
                 THEN response' = "json_error_500" /\ store' = store
                 ELSE /\ response' = "json_success"
                      /\ store' = [store EXCEPT !.plans =
                                     PutRow(@, [row EXCEPT !.target_savings_rate =
                                                             decimal_of_str(target_savings).val])]
    /\ op' = "api_apply_kpi"
    /\ StoreFrame

\* api_predict_income (lines 710-755): the incomes go through Decimal(str(income))
ApiPredictIncome ==
    /\ \E posted \in JsonIncomes :
          LET converted == [m \in 1..Len(posted) |-> decimal_of_str(posted[m])]
              monthly_incomes == [m \in 1..Len(posted) |-> converted[m].val]
          IN  /\ args' = [monthly_incomes |-> posted]
              /\ IF \E m \in 1..Len(posted) : ~converted[m].ok
                 THEN response' = "json_error_500"
                 ELSE IF Len(posted) # 12
                 THEN response' = "json_error_400"
                 ELSE \E r \in handler_predictions(monthly_incomes) :
                         response' = IF r.st = "raised" THEN "json_error_500" ELSE "json_success"
    /\ op' = "api_predict_income"
    /\ store' = store
    /\ StoreFrame

\* api_generate_plan (lines 760-818)
ApiGeneratePlan ==
    /\ \E body \in GeneratePlanBodies :
          LET predicted_monthly_income == decimal_of_str(body.predicted_monthly_income)
              income_volatility == decimal_of_str(FieldOr(body.income_volatility, JInt(0)))
              prediction_result ==
                  [predicted_monthly_income |-> ScaledDecimal(predicted_monthly_income.val, -2),
                   income_volatility |-> ScaledDecimal(income_volatility.val, 2),
                   risk_factors |-> <<>>,
                   growth_trend |-> "stable"]
          IN  /\ args' = [body |-> body]
              /\ IF \/ body.predicted_monthly_income = Absent
                    \/ ~predicted_monthly_income.ok
                    \/ ~income_volatility.ok
                 THEN response' = "json_error_500" /\ plan' = plan
                 ELSE /\ response' = "json_success"
                      /\ plan' = generate_adaptive_plan(prediction_result,
                                                        [plan_type |-> "moderate",
                                                         target_savings_rate |-> 20],
                                                        "none")
    /\ op' = "api_generate_plan"
    /\ store' = store
    /\ UNCHANGED <<assetVars, pred, prefs, fixed, predictVars, snapshots>>

\* api_seed_and_generate (lines 823-956); every exception ends in the JSON
\* error of line 955, after the writes made so far
ApiSeedAndGenerate ==
    /\ store.next_id + (IF store.predictions = <<>> THEN 1 ELSE 0) <= MaxRows
    /\ \E body \in SeedBodies, now \in CreationTimes :
          LET raw_incomes ==
                  IF Len(body.monthly_incomes) # 12
                  THEN [m \in 1..12 |-> JInt(DefaultIncomes[m] * 10000)]
                  ELSE body.monthly_incomes
              monthly_incomes == [m \in 1..12 |-> safe_decimal(raw_incomes[m], <<"0">>).val]
              target_savings_rate ==
                  safe_decimal(FieldOr(body.target_savings_rate, JStr(<<"2", "0">>)), <<"2", "0">>).val
              emergency_fund_target ==
                  safe_decimal(FieldOr(body.emergency_fund_target, JStr(<<"0">>)), <<"0">>).val
              current_credit_score == FieldOr(body.current_credit_score, JInt(700))
              updated == zeroed(store.predictions)
              created == updated = <<>>
              row == IF created THEN new_prediction(store.next_id, "freelance") ELSE updated[1]
              rows == IF created THEN <<row>> ELSE updated
              plan_id == IF created THEN store.next_id + 1 ELSE store.next_id
          IN  /\ args' = [body |-> body]
              /\ IF IntRaises(current_credit_score)
                 THEN response' = "json_error_500" /\ store' = store
                 ELSE IF Len(updated) > 1
                 THEN /\ response' = "json_error_500"
                      /\ store' = [store EXCEPT !.predictions = updated]
                 ELSE \E r \in handler_predictions(monthly_incomes) :
                         IF r.st = "raised"
                         THEN /\ response' = "json_error_500"
                              /\ store' = [store EXCEPT !.predictions = rows, !.next_id = plan_id]
                         ELSE LET saved == saved_prediction(row, monthly_incomes, r.val)
                                  dynamic_plan ==
                                      generate_adaptive_plan(
                                          rebuilt_prediction(saved, r.val.risk_factors,
                                                             r.val.growth_trend),
                                          [plan_type |-> body.plan_type,
                                           target_savings_rate |-> target_savings_rate],
                                          "none")
                              IN  /\ response' = "json_success"
                                  /\ store' = [predictions |-> PutRow(rows, saved),
                                               plans |-> Append(store.plans,
                                                                planned(plan_id, saved, body.plan_type,
                                                                        target_savings_rate,
                                                                        emergency_fund_target,
                                                                        IntOf(current_credit_score),
                                                                        dynamic_plan, now)),
                                               next_id |-> plan_id + 1]
    /\ op' = "api_seed_and_generate"
    /\ StoreFrame

NextStore ==
    \/ QuickStartGet
    \/ QuickStartPost
    \/ IncomePredictionPost
    \/ CreateFinancialPlanPost
    \/ ApiApplyKpi
    \/ ApiPredictIncome
    \/ ApiGeneratePlan
    \/ ApiSeedAndGenerate

SpecStore == InitStore /\ [][NextStore]_vars

----------------------------------------------------------------------------
(* Claims about the handlers, under SpecStore *)

\* the numeric values the last request carried
NumericInputs ==
    CASE op = "income_prediction" -> args.monthly_incomes
      [] op = "api_predict_income" -> args.monthly_incomes
      [] op = "create_financial_plan" ->
            <<args.form.target_savings_rate, args.form.emergency_fund_target,
              args.form.current_credit_score>>
      [] op = "api_seed_and_generate" ->
            args.body.monthly_incomes
              \o <<args.body.target_savings_rate, args.body.emergency_fund_target,
                   args.body.current_credit_score>>
      [] op = "api_generate_plan" ->
            <<args.body.predicted_monthly_income, args.body.income_volatility>>
      [] OTHER -> <<>>

\* a string that is no number, even after cleaning
MalformedNumber(v) == v.t = "str" /\ ~DecimalOfText(Cleaned(v.s)).ok

\* C18: a request to the prediction and plan handlers that carries a malformed
\* numeric value (a monthly income, the target savings rate, the emergency fund
\* target, the current credit score, a posted predicted income or volatility) is
\* answered without an error response, the value being replaced by its default.
C18_MalformedNumberNeverErrors ==
    (\E i \in DOMAIN NumericInputs : MalformedNumber(NumericInputs[i]))
        => response \notin {"server_error", "json_error_500"}

\* C19: once a FinancialPlan and its MonthlyPlan rows exist, no later request of
\* the user changes or removes them.
C19_PlansWriteOnce ==
    [][\A i \in 1..Len(store.plans) :
          \E j \in 1..Len(store'.plans) : store'.plans[j] = store.plans[i]]_vars

\* ---------------------------------------------------------------------------
\* Credit snapshots: analyze_credit_factors and simulate_credit_improvement.
\* utilization_rate, on_time_payment_ratio and factor scores are in hundredths
\* of a point; an instance in memory is an entry of snapshots.objects and is
\* referred to by its index.
\* ---------------------------------------------------------------------------

CreditScoreSnapshot(score, utilization_rate, on_time_payment_ratio, credit_age_months, hard_inquiries_12m, credit_mix_score) ==
    [score |-> score, utilization_rate |-> utilization_rate,
     on_time_payment_ratio |-> on_time_payment_ratio,
     credit_age_months |-> credit_age_months,
     hard_inquiries_12m |-> hard_inquiries_12m, credit_mix_score |-> credit_mix_score]

\* the row get_or_create makes for a user who has none
DefaultSnapshot == CreditScoreSnapshot(650, 4500, 9700, 24, 2, 40)

\* MyDataClient.get_credit_snapshot: the stored row, created when missing
get_credit_snapshot(rows) ==
    LET kept == IF rows = <<>> THEN <<DefaultSnapshot>> ELSE rows
    IN [rows |-> kept, snapshot |-> kept[1]]

\* credit ages below 120 months whose quotient age / 12 * 10, computed in binary
\* floating point, lies above (below) the exact value age * 5 / 6
FloatAbove ==
    {5, 7, 10, 14, 17, 20, 23, 25, 28, 31, 34, 37, 40, 43, 46, 50, 53, 56, 59, 62,
     65, 68, 71, 74, 77, 80, 83, 86, 89, 92, 95, 97, 100, 103, 106, 109, 112, 115, 118}
FloatBelow ==
    {1, 2, 4, 8, 11, 13, 16, 19, 22, 26, 29, 32, 35, 38, 41, 44, 47, 49, 52, 55, 58,
     61, 64, 67, 70, 73, 76, 79, 82, 85, 88, 91, 94, 98, 101, 104, 107, 110, 113, 116, 119}

\* analyze_credit_factors: the weighted total of the five sub-scores, quantized
\* to hundredths (half-even; a tie is decided by the floating-point error of the
\* age score when there is one)
analyze_credit_factors(snapshot) ==
    LET age == snapshot.credit_age_months
        utilization_score == Max(0, 10000 - snapshot.utilization_rate)
        payment_score == snapshot.on_time_payment_ratio
        capped == age >= 120
        inquiries_score == Max(0, 100 - snapshot.hard_inquiries_12m * 20)
        mix_score == snapshot.credit_mix_score
        \* ten-thousandths: 0.35, 0.30, 0.15, 0.10, 0.10
        exact == utilization_score * 35 + payment_score * 30
                 + (IF capped THEN 150000 ELSE age * 1250)
                 + inquiries_score * 1000 + mix_score * 1000
        q == exact \div 100
        r == exact % 100
        up == \/ r > 50
              \/ /\ r = 50
                 /\ IF ~capped /\ age \in FloatAbove THEN TRUE
                    ELSE IF ~capped /\ age \in FloatBelow THEN FALSE
                    ELSE q % 2 = 1
    IN [factor_score |-> IF up THEN q + 1 ELSE q]

\* int(factor_score / 100 * 950)
mapped_score(factor_score) == (factor_score * 95) \div 1000

\* a month that lowers utilization by one point only
simulated_month_slow(sim, m) ==
    [sim EXCEPT !.credit_age_months = @ + 1,
                !.utilization_rate = Max(0, @ - 100),
                !.on_time_payment_ratio = Min(10000, @ + 20),
                !.hard_inquiries_12m = IF m % 3 = 0 /\ @ > 0 THEN @ - 1 ELSE @,
                !.credit_mix_score = Min(100, @ + 1)]

\* one month of the assumed improvement, applied to the simulated instance
simulated_month(sim, m) ==
    [sim EXCEPT !.credit_age_months = @ + 1,
                !.utilization_rate = Max(0, @ - 200),
                !.on_time_payment_ratio = Min(10000, @ + 20),
                !.hard_inquiries_12m = IF m % 3 = 0 /\ @ > 0 THEN @ - 1 ELSE @,
                !.credit_mix_score = Min(100, @ + 1)]

\* the instance the simulation works on is the one it was given
sim_instance_shared(objects, snapshot) == [objects |-> objects, sim |-> snapshot]

\* sim = CreditScoreSnapshot(user=snapshot.user, score=snapshot.score, ...):
\* a new instance holding the values of the given one
sim_instance(objects, snapshot) ==
    [objects |-> Append(objects, objects[snapshot]), sim |-> Len(objects) + 1]

\* the loop over m = 1 .. months
RECURSIVE simulate_months(_, _, _, _, _)
simulate_months(objects, sim, m, months, trajectory) ==
    IF m > months THEN [objects |-> objects, trajectory |-> trajectory]
    ELSE LET after == [objects EXCEPT ![sim] = simulated_month(@, m)]
             analysis == analyze_credit_factors(after[sim])
         IN simulate_months(after, sim, m + 1, months,
                Append(trajectory,
                       [month |-> m, estimated_score |-> mapped_score(analysis.factor_score)]))

\* simulate_credit_improvement(snapshot, months): the instances in memory after
\* the call and the value returned
simulate_credit_improvement(objects, snapshot, months) ==
    LET made == sim_instance(objects, snapshot)
        run == simulate_months(made.objects, made.sim, 1, months, <<>>)
    IN [objects |-> run.objects,
        val |-> [months |-> months, trajectory |-> run.trajectory,
                 estimated_improvement |->
                    IF run.trajectory # <<>>
                    THEN run.trajectory[Len(run.trajectory)].estimated_score
                         - run.objects[snapshot].score
                    ELSE 0]]

\* ---- inputs ----

StoredSnapshots ==
    { CreditScoreSnapshot(score, u, o, age, h, x) :
        score \in {650, 900}, u \in {0, 100, 4500, 10000}, o \in {9700, 9990, 10000},
        age \in {0, 24, 118}, h \in {0, 2}, x \in {40, 99} }

SimulationMonths == {0, 1, 3, 6}

\* the age parameter of a credit_insights request
AgeParams == {"absent", "27", "abc"}

\* ---- the calls ----

InitCredit ==
    /\ profile = NoProfile
    /\ llm_json = JNull
    /\ result = NoResult
    /\ assessments = <<>>
    /\ display = NoResult
    /\ op = "init"
    /\ response = "none"
    /\ pred = <<>> /\ prefs = <<>> /\ fixed = <<>> /\ plan = <<>>
    /\ PredictIdle
    /\ args = <<>>
    /\ store = EmptyStore
    /\ snapshots \in { [rows |-> rows, objects |-> <<>>, out |-> <<>>] :
                         rows \in {<<>>} \cup { <<s>> : s \in StoredSnapshots } }

CreditFrame == UNCHANGED <<assetVars, planVars, predictVars, store>>

\* MyDataClient.get_credit_snapshot(user): the user's snapshot is loaded
GetCreditSnapshot ==
    /\ op' = "get_credit_snapshot"
    /\ LET got == get_credit_snapshot(snapshots.rows)
       IN snapshots' = [rows |-> got.rows, objects |-> <<got.snapshot>>, out |-> <<>>]
    /\ args' = <<>>
    /\ UNCHANGED response
    /\ CreditFrame

\* simulate_credit_improvement on the loaded snapshot
SimulateCreditImprovement ==
    /\ snapshots.objects # <<>>
    /\ \E months \in SimulationMonths :
         LET run == simulate_credit_improvement(<<snapshots.objects[1]>>, 1, months)
         IN /\ snapshots' = [snapshots EXCEPT !.objects = run.objects, !.out = run.val]
            /\ args' = [months |-> months]
    /\ op' = "simulate_credit_improvement"
    /\ UNCHANGED response
    /\ CreditFrame

\* credit_insights: snapshot, analysis, six simulated months, products, response
CreditInsights ==
    /\ \E age \in AgeParams :
         LET got == get_credit_snapshot(snapshots.rows)
             analysis == analyze_credit_factors(got.snapshot)
             run == simulate_credit_improvement(<<got.snapshot>>, 1, 6)
         IN /\ args' = [age |-> age]
            /\ response' = IF age = "abc" THEN "server_error" ELSE "json"
            /\ snapshots' = [rows |-> got.rows, objects |-> run.objects,
                             out |-> IF age = "abc" THEN <<>>
                                     ELSE [snapshot |-> run.objects[1], analysis |-> analysis,
                                           simulation |-> run.val]]
    /\ op' = "credit_insights"
    /\ CreditFrame

NextCredit == GetCreditSnapshot \/ SimulateCreditImprovement \/ CreditInsights

SpecCredit == InitCredit /\ [][NextCredit]_vars

\* ---- claims about the credit simulation, under SpecCredit ----

\* C20: simulate_credit_improvement leaves the snapshot it is given as it was:
\* after a run of any number of months each of its fields (score, utilization_rate,
\* on_time_payment_ratio, credit_age_months, hard_inquiries_12m, credit_mix_score)
\* has the value it had before, and the stored rows are the same; in credit_insights
\* the only write is the creation of a missing row by get_credit_snapshot.
C20_SimulationLeavesSnapshot ==
    [][/\ op' = "simulate_credit_improvement" /\ snapshots.objects # <<>>
          => /\ snapshots'.objects[1] = snapshots.objects[1]
             /\ snapshots'.rows = snapshots.rows
       /\ op' = "credit_insights"
          => /\ snapshots'.rows = get_credit_snapshot(snapshots.rows).rows
             /\ snapshots'.objects[1] = snapshots'.rows[1]]_vars

\* six months were simulated from utilization 45: the copy ends at 33, the
\* snapshot and its row still hold 45
C20_Witness ==
    /\ op = "simulate_credit_improvement"
    /\ args.months = 6
    /\ Len(snapshots.objects) = 2
    /\ snapshots.rows[1].utilization_rate = 4500
    /\ snapshots.objects[1] = snapshots.rows[1]
    /\ snapshots.objects[2].utilization_rate = 3300
    /\ snapshots.objects[2].credit_age_months = snapshots.objects[1].credit_age_months + 6
    /\ Len(snapshots.out.trajectory) = 6

\* the number of months the last simulation ran
SimulatedMonths == IF op = "simulate_credit_improvement" THEN args.months ELSE 6

SimulationRan ==
    /\ op \in {"simulate_credit_improvement", "credit_insights"}
    /\ Len(snapshots.objects) = 2

\* C21: after m simulated months from utilization u, on-time ratio o, inquiries h
\* and credit mix x the simulated copy has utilization max(0, u - 2m), on-time
\* ratio min(100, o + 0.2m), inquiries max(0, h - floor(m / 3)) and credit mix
\* min(100, x + m); utilization 45 over 6 months ends at 33; the trajectory has
\* exactly m entries, each estimated score in 0..950.
C21_SimulatedCopyAfterMonths ==
    SimulationRan =>
        LET m == SimulatedMonths
            given == snapshots.objects[1]
            sim == snapshots.objects[2]
            trajectory == IF op = "credit_insights"
                          THEN (IF snapshots.out = <<>> THEN <<>>
                                ELSE snapshots.out.simulation.trajectory)
                          ELSE snapshots.out.trajectory
        IN /\ sim.utilization_rate = Max(0, given.utilization_rate - 200 * m)
           /\ sim.on_time_payment_ratio = Min(10000, given.on_time_payment_ratio + 20 * m)
           /\ sim.hard_inquiries_12m = Max(0, given.hard_inquiries_12m - (m \div 3))
           /\ sim.credit_mix_score = Min(100, given.credit_mix_score + m)
           /\ (given.utilization_rate = 4500 /\ m = 6 => sim.utilization_rate = 3300)
           /\ (op = "credit_insights" /\ snapshots.out = <<>>) \/ Len(trajectory) = m
           /\ \A i \in 1..Len(trajectory) :
                /\ trajectory[i].month = i
                /\ trajectory[i].estimated_score \in 0..950

\* six months from utilization 45, on-time ratio 99.9, two inquiries and credit
\* mix 99: the floor of the inquiries and both ceilings are met
C21_Witness ==
    /\ op = "simulate_credit_improvement"
    /\ args.months = 6
    /\ Len(snapshots.objects) = 2
    /\ snapshots.objects[1].utilization_rate = 4500
    /\ snapshots.objects[1].on_time_payment_ratio = 9990
    /\ snapshots.objects[1].hard_inquiries_12m = 2
    /\ snapshots.objects[1].credit_mix_score = 99
    /\ snapshots.objects[2].on_time_payment_ratio = 10000
    /\ snapshots.objects[2].hard_inquiries_12m = 0
    /\ snapshots.objects[2].credit_mix_score = 100
    /\ Len(snapshots.out.trajectory) = 6

----------------------------------------------------------------------------
(* The statistical predictor on its own: predict_income of a predictor that *)
(* has no inference client.                                                  *)

\* 1,000,000 1,100,000 ... 1,400,000 KRW in units of 10,000
RisingHistory == <<100, 110, 120, 130, 140, 100, 110, 90, 120, 150, 160, 140>>

\* z months without income, then months of a, the last three months of b
SteppedHistories ==
    { [m \in 1..12 |-> IF m <= z THEN 0 ELSE IF m <= 9 THEN a ELSE b] :
        z \in {0, 5, 8, 9}, a \in {100, 200}, b \in {0, 89, 90, 100, 110, 111, 300} }

\* two or four earning months far apart: the volatility index is at its cap of
\* 100 and the mean income is 350.5, 333 and 450 units
DispersedHistories ==
    { [m \in 1..12 |-> IF m = 11 THEN 700 ELSE IF m = 12 THEN 1 ELSE 0],
      [m \in 1..12 |-> IF m = 11 THEN 665 ELSE IF m = 12 THEN 1 ELSE 0],
      [m \in 1..12 |-> IF m = 9 THEN 1500 ELSE IF m > 9 THEN 100 ELSE 0] }

StatisticsHistories ==
    Histories \cup SteppedHistories \cup DispersedHistories \cup {RisingHistory}

InitStatistics ==
    /\ profile = NoProfile
    /\ llm_json = JNull
    /\ result = NoResult
    /\ assessments = <<>>
    /\ display = NoResult
    /\ op = "init"
    /\ response = "none"
    /\ pred = <<>> /\ prefs = <<>> /\ fixed = <<>> /\ plan = <<>>
    /\ history \in {[unit |-> u, incomes |-> h] : u \in Units, h \in StatisticsHistories}
    /\ client = FALSE
    /\ calls = <<>>
    /\ pc = "predict_income"
    /\ reply = [kind |-> "none", text |-> <<>>]
    /\ prediction = NoPrediction
    /\ args = <<>>
    /\ store = EmptyStore
    /\ snapshots = NoCredit

NextStatistics == Preprocess \/ StatisticalFallback

SpecStatistics == InitStatistics /\ [][NextStatistics]_vars

\* ---- claims about the statistical predictor, under SpecStatistics ----

\* the statistical predictor returned for a history with a valid month
StatisticsReturned == PredictionReturned /\ valid_incomes_now # <<>>

C23_ConfidenceFormula ==
    StatisticsReturned =>
        LET n == Len(valid_incomes_now)
            volatility == prediction.val.income_volatility
            formula == 5000 * Min(n, 12) + 40000 - 4 * Min(volatility, 10000)
        IN Abs(10 * prediction.val.confidence_level - formula) <= 5

----------------------------------------------------------------------------
(* Further claims about _ensure_assessment_schema, under SpecRepair *)

ReplacedLists == {"risk_factors", "recommendations", "next_steps"}

\* C24: when repair is given a dict and returns, each of the five metric keys of
\* the result is the dict's value if the dict's metrics hold the key with a
\* non-null value and the base's value otherwise, and each of risk_factors,
\* recommendations and next_steps is the dict's list if present and non-empty and
\* the base's list otherwise: replaced whole, never merged.
C24_OverlayPerKey ==
    (op = "repair" /\ llm_json.t = "dict" /\ result.st = "ok") =>
        LET base == fallback_assessment_from_profile(profile)
            given == llm_json.d
            supplied(k) == /\ "metrics" \in DOMAIN given
                           /\ given.metrics.t = "dict"
                           /\ k \in DOMAIN given.metrics.d
                           /\ given.metrics.d[k].t # "null"
            listed(k) == /\ k \in DOMAIN given
                         /\ given[k].t = "list"
                         /\ given[k].s # <<>>
        IN /\ \A k \in MetricKeys :
                result.val.metrics.d[k]
                  = IF supplied(k) THEN given.metrics.d[k] ELSE base.metrics.d[k]
           /\ \A k \in ReplacedLists :
                result.val[k] = IF listed(k) THEN given[k] ELSE base[k]

\* a dict with one metric null, one metric set, and three non-empty lists
C24_Witness ==
    /\ op = "repair" /\ llm_json.t = "dict" /\ result.st = "ok"
    /\ "metrics" \in DOMAIN llm_json.d /\ llm_json.d.metrics.t = "dict"
    /\ "liquidity_ratio" \in DOMAIN llm_json.d.metrics.d
    /\ llm_json.d.metrics.d.dti_pct = JNull
    /\ result.val.metrics.d.liquidity_ratio = JNum(250)
    /\ result.val.metrics.d.dti_pct = fallback_assessment_from_profile(profile).metrics.d.dti_pct
    /\ "recommendations" \in DOMAIN llm_json.d
    /\ result.val.recommendations = JList(<<"c1", "c2", "c3">>)
    /\ result.val.recommendations # fallback_assessment_from_profile(profile).recommendations

\* C27: the alerts of every result of repair are the base's empty list; an alerts
\* list in the external dict is never copied into the result.
C27_AlertsStayEmpty ==
    (op = "repair" /\ result.st = "ok") =>
        /\ result.val.alerts = JList(<<>>)
        /\ result.val.alerts = fallback_assessment_from_profile(profile).alerts

\* a dict that supplies an alert was repaired
C27_Witness ==
    /\ op = "repair" /\ result.st = "ok" /\ llm_json.t = "dict"
    /\ "alerts" \in DOMAIN llm_json.d
    /\ llm_json.d.alerts = JList(<<"a1">>)
    /\ result.val.risk_factors = JList(<<"r1">>)
    /\ result.val.alerts = JList(<<>>)

----------------------------------------------------------------------------
(* Further claims about the handlers, under SpecStore *)

\* the predicted income times the seasonal multiplier of a calendar month, then
\* the trend compounded over the months since creation
SeasonalIncome(calendar_month, months_ahead, predicted_income, growth_trend) ==
    LET seasonal == RoundHalfEven(predicted_income * get_seasonal_factor(calendar_month), 100)
    IN  IF growth_trend = "positive"
        THEN TimesMillionths(seasonal, growth_power(101, months_ahead))
        ELSE IF growth_trend = "negative"
        THEN TimesMillionths(seasonal, growth_power(99, months_ahead))
        ELSE seasonal

\* C25: each of the 12 MonthlyPlan rows stored for a new plan, labelled with
\* consecutive calendar months from the month of creation, has expected_income
\* equal to the predicted income times the seasonal multiplier of the calendar
\* month of its label (times the trend compounding), the multiplier in 0.9..1.2.
C25_SeasonalByCalendarMonth ==
    [][Len(store'.plans) > Len(store.plans) =>
          LET made == store'.plans[Len(store'.plans)]
              rows == made.monthly_plans
              predicted == RowOf(store'.predictions, made.income_prediction).predicted_monthly_income
          IN  /\ Len(rows) = 12
              /\ \A k \in 1..12 :
                    /\ [year |-> rows[k].year, month |-> rows[k].month]
                         = target_month([year |-> rows[1].year, month |-> rows[1].month], k - 1)
                    /\ get_seasonal_factor(rows[k].month) \in 90..120
              /\ \E growth_trend \in {"positive", "negative", "stable"} :
                    \A k \in 1..12 :
                        rows[k].expected_income
                          = SeasonalIncome(rows[k].month, k, predicted, growth_trend)]_vars

\* C30: after any earlier quick_start, income_prediction and api_seed_and_generate
\* requests of the user, an api_seed_and_generate POST with a valid JSON body
\* returns success having created one FinancialPlan with 12 MonthlyPlan rows,
\* however many IncomePrediction rows the user has; it never answers with an
\* error after having zeroed the user's rows.
C30_SeedAlwaysSucceeds ==
    [][(op' = "api_seed_and_generate" /\ args'.body.current_credit_score = Absent) =>
          /\ response' = "json_success"
          /\ Len(store'.plans) = Len(store.plans) + 1
          /\ Len(store'.plans[Len(store'.plans)].monthly_plans) = 12
          /\ \A i \in 1..Len(store.plans) : store'.plans[i] = store.plans[i]]_vars

\* C26: for every profile (metrics, credit score, delinquency flag) the score of
\* _score_and_grade_from_metrics is at least 20, so the score_100 of the
\* deterministic base assessment is never 0.
C26_ScoreAtLeastTwenty ==
    op = "score" =>
        /\ result.val.score >= 20
        /\ result.val.score =
             score_and_grade_from_metrics(compute_metrics_from_profile(profile), profile.credit_score,
                                          profile.delinquency_last12m # 0).score
        /\ fallback_assessment_from_profile(profile).score_100 = JInt(result.val.score)
        /\ fallback_assessment_from_profile(profile).score_100.n # 0

\* the worst profile: every rule at its lowest, delinquent, and the score is 20
C26_Witness ==
    /\ op = "score"
    /\ result.val.score = 20
    /\ result.val.metrics.dti_pct > 7000
    /\ result.val.metrics.savings_rate_pct < 1000
    /\ profile.credit_score < 600
    /\ profile.delinquency_last12m # 0

\* C28: the allocation returned by generate_adaptive_plan (risk tier, ratio vector
\* and the 12 monthly entries) does not depend on user_preferences: with the same
\* prediction result and fixed expenses, every other chosen plan_type and
\* target_savings_rate gives the same plan.
C28_PreferencesIgnored ==
    op = "generate_adaptive_plan" =>
        \A user \in {"none", "user"} :
            fixed = fixed_expenses_for(user) =>
                \A other \in Preferences :
                    LET again == generate_adaptive_plan(pred, other, user)
                    IN  /\ plan.plan_type = again.plan_type
                        /\ plan.ratios = again.ratios
                        /\ plan.monthly_plans = again.monthly_plans
                        /\ plan = again

\* the user chose the aggressive tier with a 10% savings target and the plan
\* returned is conservative, as it is for the other choice
C28_Witness ==
    /\ op = "generate_adaptive_plan"
    /\ prefs = [plan_type |-> "aggressive", target_savings_rate |-> 10]
    /\ plan.plan_type = "conservative"
    /\ Len(plan.monthly_plans) = 12
    /\ \E other \in Preferences : other # prefs

\* C29: for a history whose valid months have a mean income of 334 KRW or more
\* the statistical predictor never gives the high-volatility risk factor, however
\* dispersed the incomes (the volatility index is at most 100 and is compared with
\* 0.3 x mean income); it gives at most 3 risk factors, and the risk factors alone
\* select the conservative tier only when the other three are all present.
C29_NoHighVolatilityFactor ==
    (StatisticsReturned /\ SumSeq(valid_incomes_now) * history.unit >= 334 * Len(valid_incomes_now)) =>
        LET risk_factors == prediction.val.risk_factors
            present(f) == \E i \in 1..Len(risk_factors) : risk_factors[i] = f
        IN  /\ prediction.val.income_volatility \in 0..10000
            /\ ~present("high_volatility")
            /\ Len(risk_factors) <= 3
            /\ \A prefer \in Preferences :
                  determine_plan_type(0, risk_factors, prefer) = "conservative"
                    <=> /\ present("short_history")
                        /\ present("low_income")
                        /\ present("recent_decline")

\* incomes of 1500 and 100 x 3 units in four months: the volatility index
\* is at its cap, the factor is absent, and the other three are present
C29_Witness ==
    /\ StatisticsReturned
    /\ SumSeq(valid_incomes_now) * history.unit >= 334 * Len(valid_incomes_now)
    /\ prediction.val.income_volatility = 10000
    /\ prediction.val.risk_factors = <<"short_history", "low_income", "recent_decline">>

====
